---- MODULE Spec2Model ----
(***************************************************************************)
(* hl7_fhir_tool: the transformer registry (transform/registry.py), its    *)
(* population by import-time discovery (transform/__init__.py,             *)
(* transform/v2_to_fhir/__init__.py) and the five HL7 v2 -> FHIR           *)
(* transformers (transform/v2_to_fhir/*.py).                               *)
(*                                                                         *)
(* Python text is a sequence of one-character strings, so that strip,      *)
(* split, startswith and upper are computed character by character.        *)
(* A raised exception is the value of a variable or of a record field; the *)
(* try/except blocks of the source decide where it is swallowed.           *)
(***************************************************************************)
EXTENDS Integers, Sequences, FiniteSets, TLC

\* --------------------------------------------------------------------------
\* Python str
\* --------------------------------------------------------------------------

CR == "\r"
LF == "\n"
TAB == "\t"

\* None where the code has Optional[str]: a sequence that is no text
None == <<"None">>

\* str.isspace() for the characters that occur here
IsSpace(c) == c \in {" ", CR, LF, TAB}

Digits == <<"0", "1", "2", "3", "4", "5", "6", "7", "8", "9">>

IsDigitChar(c) == \E i \in 1..10 : Digits[i] = c

DigitVal(c) == (CHOOSE i \in 1..10 : Digits[i] = c) - 1

Lowers == <<"a", "b", "c", "d", "e", "f", "g", "h", "i", "j", "k", "l", "m",
            "n", "o", "p", "q", "r", "s", "t", "u", "v", "w", "x", "y", "z">>

Uppers == <<"A", "B", "C", "D", "E", "F", "G", "H", "I", "J", "K", "L", "M",
            "N", "O", "P", "Q", "R", "S", "T", "U", "V", "W", "X", "Y", "Z">>

UpperChar(c) ==
    IF \E i \in 1..26 : Lowers[i] = c
    THEN Uppers[CHOOSE i \in 1..26 : Lowers[i] = c]
    ELSE c

\* str.upper()
Upper(s) == [i \in 1..Len(s) |-> UpperChar(s[i])]

\* str.isdigit(): false for the empty string
IsDigitStr(s) == Len(s) > 0 /\ \A i \in 1..Len(s) : IsDigitChar(s[i])

\* s[:n]
Prefix(s, n) == IF Len(s) <= n THEN s ELSE SubSeq(s, 1, n)

\* str.startswith(p)
StartsWith(s, p) == Len(s) >= Len(p) /\ SubSeq(s, 1, Len(p)) = p

RECURSIVE LStrip(_)
LStrip(s) == IF s # <<>> /\ IsSpace(Head(s)) THEN LStrip(Tail(s)) ELSE s

RECURSIVE RStrip(_)
RStrip(s) ==
    IF s # <<>> /\ IsSpace(s[Len(s)]) THEN RStrip(SubSeq(s, 1, Len(s) - 1)) ELSE s

\* str.strip()
Strip(s) == RStrip(LStrip(s))

\* position of the first occurrence of character c in s, 0 when there is none
IndexOf(s, c, i) ==
    LET at == {j \in i..Len(s) : s[j] = c}
    IN  IF at = {} THEN 0 ELSE CHOOSE j \in at : \A k \in at : j <= k

\* str.split(c) for a one-character separator: always at least one part
RECURSIVE Split(_, _)
Split(s, c) ==
    LET i == IndexOf(s, c, 1)
    IN  IF i = 0 THEN <<s>>
        ELSE <<SubSeq(s, 1, i - 1)>> \o Split(SubSeq(s, i + 1, Len(s)), c)

\* "c" in s
Contains(s, c) == IndexOf(s, c, 1) # 0

\* c.join(parts) for a one-character separator
RECURSIVE Join(_, _)
Join(parts, c) ==
    IF Len(parts) = 1 THEN parts[1]
    ELSE parts[1] \o <<c>> \o Join(Tail(parts), c)

\* str.replace("\r\n", "\n"): a "\r" goes exactly when a "\n" follows it, that
\* is when it ends a part of s.split("\n") that is not the last
ReplaceCRLF(s) ==
    LET parts == Split(s, LF)
        Cut(k) == IF k < Len(parts) /\ parts[k] # <<>> /\ parts[k][Len(parts[k])] = CR
                  THEN SubSeq(parts[k], 1, Len(parts[k]) - 1)
                  ELSE parts[k]
    IN  Join([k \in 1..Len(parts) |-> Cut(k)], LF)

\* str.replace(a, b) for one-character a and b
ReplaceChar(s, a, b) == [i \in 1..Len(s) |-> IF s[i] = a THEN b ELSE s[i]]

\* decimal text of a natural number, str(n)
RECURSIVE NatStr(_)
NatStr(n) ==
    IF n < 10 THEN <<Digits[n + 1]>> ELSE NatStr(n \div 10) \o <<Digits[(n % 10) + 1]>>

\* order of the characters, for sorted()
Alphabet ==
    <<TAB, LF, CR, " ", "-", ".", "0", "1", "2", "3", "4", "5", "6", "7", "8", "9",
      "A", "B", "C", "D", "E", "F", "G", "H", "I", "J", "K", "L", "M",
      "N", "O", "P", "Q", "R", "S", "T", "U", "V", "W", "X", "Y", "Z", "^", "_",
      "a", "b", "c", "d", "e", "f", "g", "h", "i", "j", "k", "l", "m",
      "n", "o", "p", "q", "r", "s", "t", "u", "v", "w", "x", "y", "z", "|">>

Ord(c) == CHOOSE i \in 1..Len(Alphabet) : Alphabet[i] = c

\* s < t as Python compares str
RECURSIVE StrLess(_, _)
StrLess(s, t) ==
    IF t = <<>> THEN FALSE
    ELSE IF s = <<>> THEN TRUE
    ELSE IF s[1] = t[1] THEN StrLess(Tail(s), Tail(t))
    ELSE Ord(s[1]) < Ord(t[1])

\* sorted(S) for a set of str
RECURSIVE Sorted(_)
Sorted(S) ==
    IF S = {} THEN <<>>
    ELSE LET m == CHOOSE x \in S : \A y \in S \ {x} : StrLess(x, y)
         IN  <<m>> \o Sorted(S \ {m})

\* --------------------------------------------------------------------------
\* Trigger events and transformer classes
\* --------------------------------------------------------------------------

\* 'ADT^A01'
EVENT_CODE == <<"A", "D", "T", "^", "A", "0", "1">>
\* 'ADT^A03'
EVT_ADT_A03 == <<"A", "D", "T", "^", "A", "0", "3">>
\* 'ADT^A08'
EVT_ADT_A08 == <<"A", "D", "T", "^", "A", "0", "8">>
\* 'ORM^O01'
EVT_ORM_O01 == <<"O", "R", "M", "^", "O", "0", "1">>
\* 'ORU^R01'
EVT_ORU_R01 == <<"O", "R", "U", "^", "R", "0", "1">>
\* 'ADT^A04', bound by no transformer module
EVT_ADT_A04 == <<"A", "D", "T", "^", "A", "0", "4">>

TransformerClasses ==
    {"ADTA01Transformer", "ADTA03Transformer", "ADTA08Transformer",
     "ORMO01Transformer", "ORUR01Transformer"}

\* the class attribute `event` of each transformer class
EventOf(cls) ==
    CASE cls = "ADTA01Transformer" -> EVENT_CODE
      [] cls = "ADTA03Transformer" -> EVT_ADT_A03
      [] cls = "ADTA08Transformer" -> EVT_ADT_A08
      [] cls = "ORMO01Transformer" -> EVT_ORM_O01
      [] cls = "ORUR01Transformer" -> EVT_ORU_R01

SupportedEvents == {EventOf(cls) : cls \in TransformerClasses}

\* objects handed to register(event)(cls) by the registry's callers: two of
\* the transformer classes and the stand-ins of
\* tests/test_transform_registry.py
Candidates ==
    {"ADTA01Transformer", "ORUR01Transformer",
     "_GoodTransformerA", "_GoodTransformerB", "duck",
     "_BadTransformerMissingApplies", "_BadTransformerMissingTransform"}

\* None where the code has an optional transformer (class or instance)
NoTransformer == "NoTransformer"

\* isinstance(cls, type)
IsClass(cls) == cls # "duck"

\* callable(getattr(cls, "applies", None))
HasApplies(cls) == cls \notin {"duck", "_BadTransformerMissingApplies"}

\* callable(getattr(cls, "transform", None))
HasTransform(cls) == cls \notin {"duck", "_BadTransformerMissingTransform"}

\* --------------------------------------------------------------------------
\* registry.py
\* --------------------------------------------------------------------------

\* register without the check for an event already bound
RegisterErrorNoDuplicateCheck(reg, event, cls) ==
    IF ~IsClass(cls) THEN "TypeError"
    ELSE IF ~HasApplies(cls) \/ ~HasTransform(cls) THEN "TypeError"
    ELSE "none"

\* the exception register(event)(cls) raises, "none" when it binds
RegisterError(reg, event, cls) ==
    IF event \in DOMAIN reg THEN "ValueError"
    ELSE IF ~IsClass(cls) THEN "TypeError"
    ELSE IF ~HasApplies(cls) \/ ~HasTransform(cls) THEN "TypeError"
    ELSE "none"

\* _REGISTRY after register(event)(cls)
RegisterTable(reg, event, cls) ==
    IF RegisterError(reg, event, cls) = "none"
    THEN [e \in DOMAIN reg \cup {event} |-> IF e = event THEN cls ELSE reg[e]]
    ELSE reg

\* a lookup that answers with some bound class whatever the key bound is
RegistryGetAnyBound(reg, key) ==
    IF key \in DOMAIN reg THEN reg[CHOOSE e \in DOMAIN reg : e # key]
    ELSE NoTransformer

\* _REGISTRY.get(key)
RegistryGet(reg, key) == IF key \in DOMAIN reg THEN reg[key] ELSE NoTransformer

\* available_events()
available_events(reg) == Sorted(DOMAIN reg)

EmptyRegistry == [e \in {} |-> NoTransformer]

\* --------------------------------------------------------------------------
\* The message header as the code reads it: msg.MSH.msh_9
\* --------------------------------------------------------------------------

\* msg.msh.acc, the outcome of reading msg.MSH and then its msh_9:
\*   "ok"      the attribute is there
\*   "noMSH"   msg.MSH raises AttributeError
\*   "noMSH9"  msg.MSH has no msh_9 (AttributeError)
\*   "raises"  the accessor raises an exception that is not an AttributeError
\* msg.msh.shape, what msh_9 is when it is there:
\*   "er7"        an element whose to_er7() returns the str msg.msh.text
\*   "er7bytes"   to_er7() returns msg.msh.text as bytes
\*   "er7none"    to_er7() returns None
\*   "er7raises"  to_er7() raises (not an AttributeError)
\*   "value"      no to_er7; attribute value holds the str msg.msh.text
\*   "valueraises" no to_er7; reading value raises
\*   "str"        msh_9 is the plain str msg.msh.text
\*   "strraises"  no to_er7, no value, and __str__ raises
\*   "none"       msh_9 is None
MshAccs == {"ok", "noMSH", "noMSH9", "raises"}

MshShapes ==
    {"er7", "er7bytes", "er7none", "er7raises", "value", "valueraises",
     "str", "strraises", "none"}

\* str(obj) of an object that defines no __str__: some text that is no event
ObjRepr == <<"<", "o", "b", "j", ">">>

\* str(None)
NoneText == <<"N", "o", "n", "e">>

\* str(b) of a bytes value: b'...'
BytesRepr(t) == <<"b", "'">> \o t \o <<"'">>

\* the outcome of a call: a returned value, or the exception it raised
Returned(v) == [exc |-> "none", value |-> v]

Raised(kind) == [exc |-> kind, value |-> None]

\* the text looked up when an extended trigger is not truncated
LookupKeyWhole(text) == Strip(text)

\* the text get_transformer looks up, after decoding, trimming and truncation
LookupKey(text) ==
    LET msg_type == Strip(text)
    IN  IF Contains(msg_type, "^")
        THEN LET parts == Split(msg_type, "^")
             IN  parts[1] \o <<"^">> \o parts[2]
        ELSE msg_type

\* get_transformer(msg): the class it instantiates, None, or an exception
get_transformer(reg, msg) ==
    LET h == msg.msh
    IN  IF h.acc # "ok" THEN Returned(NoTransformer)
        ELSE IF h.shape \in {"er7raises", "valueraises"} THEN Returned(NoTransformer)
        ELSE IF h.shape \in {"er7none", "none"} THEN Returned(NoTransformer)
        ELSE IF h.shape = "strraises" THEN [exc |-> "Exception", value |-> NoTransformer]
        ELSE Returned(RegistryGet(reg, LookupKey(h.text)))

\* _get_trigger(msh_9) of adt_a01.py
GetTrigger(h) ==
    CASE h.shape = "none" -> None
      [] h.shape = "er7" -> h.text
      [] h.shape = "er7bytes" -> BytesRepr(h.text)
      [] h.shape = "er7none" -> NoneText
      [] h.shape = "er7raises" -> None
      [] h.shape = "str" -> h.text
      [] h.shape = "strraises" -> None
      [] h.shape \in {"value", "valueraises"} -> ObjRepr

\* ADTA01Transformer.applies
AppliesA01(msg) ==
    IF msg.msh.acc # "ok" THEN Returned(FALSE)
    ELSE Returned(GetTrigger(msg.msh) = EVENT_CODE)

\* str(msg.MSH.msh_9.to_er7()): the text, or the exception raised on the way
HeaderEr7Str(h) ==
    CASE h.acc \in {"noMSH", "noMSH9"} -> Raised("AttributeError")
      [] h.acc = "raises" -> Raised("Exception")
      [] h.shape = "er7" -> Returned(h.text)
      [] h.shape = "er7bytes" -> Returned(BytesRepr(h.text))
      [] h.shape = "er7none" -> Returned(NoneText)
      [] h.shape = "er7raises" -> Raised("Exception")
      [] OTHER -> Raised("AttributeError")

\* ADTA03Transformer.applies: only AttributeError is caught
AppliesA03(msg) ==
    LET t == HeaderEr7Str(msg.msh)
    IN  IF t.exc = "AttributeError" THEN Returned(FALSE)
        ELSE IF t.exc = "Exception" THEN [exc |-> "Exception", value |-> FALSE]
        ELSE Returned(t.value = EVT_ADT_A03)

\* ADTA08Transformer.applies and ORMO01Transformer.applies: any exception is
\* caught
AppliesEr7(msg, event) ==
    LET t == HeaderEr7Str(msg.msh)
    IN  IF t.exc # "none" THEN Returned(FALSE)
        ELSE Returned(t.value = event)

\* _er7(getattr(msg.MSH, "msh_9", None)) of oru_r01.py; exc "bytes" stands for
\* the bytes value that to_er7() returned
HeaderEr7Oru(h) ==
    CASE h.acc = "noMSH" -> Raised("Exception")
      [] h.acc = "raises" -> Raised("Exception")
      [] h.acc = "noMSH9" -> Returned(<<>>)
      [] h.shape = "none" -> Returned(<<>>)
      [] h.shape = "er7" -> Returned(Strip(h.text))
      [] h.shape = "er7bytes" -> Raised("bytes")
      [] h.shape = "er7none" -> Returned(<<>>)
      [] h.shape = "er7raises" -> Returned(<<>>)
      [] h.shape = "str" -> Returned(Strip(h.text))
      [] h.shape = "strraises" -> Returned(<<>>)
      [] h.shape \in {"value", "valueraises"} -> Returned(ObjRepr)

\* ORUR01Transformer.applies
AppliesOru(msg) ==
    LET r == HeaderEr7Oru(msg.msh)
    IN  IF r.exc = "Exception" THEN Returned(FALSE)
        ELSE IF r.exc = "bytes"
             THEN \* bytes.upper() is bytes: empty gives False, otherwise
                  \* raw.split("^") raises TypeError, which is caught
                  Returned(FALSE)
        ELSE LET raw == Upper(r.value)
                 comps == Split(raw, "^")
             IN  IF raw = <<>> THEN Returned(FALSE)
                 ELSE IF Len(comps) >= 2 /\ comps[1] \o <<"^">> \o comps[2] = EVT_ORU_R01
                      THEN Returned(TRUE)
                 ELSE Returned(StartsWith(raw, EVT_ORU_R01))

\* cls().applies(msg)
Applies(cls, msg) ==
    CASE cls = "ADTA01Transformer" -> AppliesA01(msg)
      [] cls = "ADTA03Transformer" -> AppliesA03(msg)
      [] cls = "ADTA08Transformer" -> AppliesEr7(msg, EVT_ADT_A08)
      [] cls = "ORMO01Transformer" -> AppliesEr7(msg, EVT_ORM_O01)
      [] cls = "ORUR01Transformer" -> AppliesOru(msg)

\* --------------------------------------------------------------------------
\* transform/v2_to_fhir/__init__.py: discovery
\* --------------------------------------------------------------------------

\* __name__ of transform/v2_to_fhir/__init__.py
MOD_BASE ==
    <<"h", "l", "7", "_", "f", "h", "i", "r", "_", "t", "o", "o", "l", ".",
      "t", "r", "a", "n", "s", "f", "o", "r", "m", ".",
      "v", "2", "_", "t", "o", "_", "f", "h", "i", "r">>

\* 'adt_a01'
MOD_adt_a01 == MOD_BASE \o <<".">> \o <<"a", "d", "t", "_", "a", "0", "1">>

\* 'adt_a03'
MOD_adt_a03 == MOD_BASE \o <<".">> \o <<"a", "d", "t", "_", "a", "0", "3">>

\* 'adt_a08'
MOD_adt_a08 == MOD_BASE \o <<".">> \o <<"a", "d", "t", "_", "a", "0", "8">>

\* 'orm_o01'
MOD_orm_o01 == MOD_BASE \o <<".">> \o <<"o", "r", "m", "_", "o", "0", "1">>

\* 'oru_r01'
MOD_oru_r01 == MOD_BASE \o <<".">> \o <<"o", "r", "u", "_", "r", "0", "1">>

\* '_helper_internal'
MOD_helper_internal ==
    MOD_BASE \o <<".">> \o
    <<"_", "h", "e", "l", "p", "e", "r", "_", "i", "n", "t", "e", "r", "n", "a", "l">>

Modules ==
    {MOD_adt_a01, MOD_adt_a03, MOD_adt_a08, MOD_orm_o01, MOD_oru_r01,
     MOD_helper_internal}

\* what _iter_modules(base) yields: the package as it is, and the package with
\* a private helper module beside the transformers
\* (tests/test_v2_to_fhir_loader.py)
ModuleListings ==
    {<<MOD_adt_a01, MOD_adt_a03, MOD_adt_a08, MOD_orm_o01, MOD_oru_r01>>,
     <<MOD_helper_internal, MOD_adt_a01, MOD_adt_a03, MOD_adt_a08, MOD_orm_o01,
       MOD_oru_r01>>}

\* the class a transformer module defines under @register(...)
ModuleClass(modname) ==
    CASE modname = MOD_adt_a01 -> "ADTA01Transformer"
      [] modname = MOD_adt_a03 -> "ADTA03Transformer"
      [] modname = MOD_adt_a08 -> "ADTA08Transformer"
      [] modname = MOD_orm_o01 -> "ORMO01Transformer"
      [] modname = MOD_oru_r01 -> "ORUR01Transformer"
      [] OTHER -> NoTransformer

\* modname.rsplit(".", 1)[-1]
ShortName(modname) == LET parts == Split(modname, ".") IN parts[Len(parts)]

\* load_all without the memory of what it has imported
NeverDiscovered(modname, discovered) == FALSE

\* `if modname in _DISCOVERED: continue`
AlreadyDiscovered(modname, discovered) == modname \in discovered

\* a test for private modules that looks for '_' anywhere in the short name
HasUnderscore(modname) == Contains(ShortName(modname), "_")

\* `if short.startswith("_"): continue`
IsPrivateModule(modname) == StartsWith(ShortName(modname), <<"_">>)

\* load_all() imports modname in this iteration of its loop
LoadAllImports(modname, discovered) ==
    ~AlreadyDiscovered(modname, discovered) /\ ~IsPrivateModule(modname)

\* the registry once every transformer module has registered its class
PopulatedRegistry == [e \in SupportedEvents |->
                        CHOOSE cls \in TransformerClasses : EventOf(cls) = e]

\* --------------------------------------------------------------------------
\* The structured tree of a message as the transformers read it
\* --------------------------------------------------------------------------

\* A leaf is what an attribute such as pid.pid_7 or rep.cx_1 gives:
\*   "none"       the attribute is None
\*   "absent"     there is no such attribute (getattr returns its default)
\*   "text"       an element whose to_er7() returns leaf.text
\*   "raises"     reading the attribute raises (not an AttributeError)
\*   "er7raises"  an element whose to_er7() raises
Leaf(kind, text) == [kind |-> kind, text |-> text]

LeafNone == Leaf("none", <<>>)

LeafText(t) == Leaf("text", t)

LeafRaises == Leaf("raises", <<>>)

LeafEr7Raises == Leaf("er7raises", <<>>)

\* A repeating field (pid_3, pid_5): "none", "raises" (reading it raises), or
\* "rep", a non-empty list whose first repetition has the components c
RepNone == [kind |-> "none", c |-> <<>>]

RepRaises == [kind |-> "raises", c |-> <<>>]

Rep(c) == [kind |-> "rep", c |-> c]

\* the fields of the segments that the transformers read
NoFields ==
    [pid_3 |-> RepNone, pid_5 |-> RepNone, pid_7 |-> LeafNone, pid_8 |-> LeafNone,
     pv1_2 |-> LeafNone, pv1_19 |-> LeafNone, pv1_44 |-> LeafNone,
     pv1_45 |-> LeafNone,
     orc_2 |-> LeafNone, orc_3 |-> LeafNone, orc_5 |-> LeafNone,
     obr_2 |-> LeafNone, obr_3 |-> LeafNone, obr_4 |-> RepNone,
     obx_3 |-> RepNone, obx_5 |-> LeafNone, obx_6 |-> RepNone]

\* children of a node: "list" of nodes, "none" (the attribute is None),
\* "raises" (reading it raises) or "absent" (no such attribute)
Children(kind, nodes) == [kind |-> kind, nodes |-> nodes]

NoChildren == Children("list", <<>>)

\* A node of the tree. kind "seg" is a segment or group object, "list0" an
\* empty list standing where a segment would be. attr is a set of pairs
\* <<name, value>>, the named attributes the node answers to.
Node(name, kind, attr, children, f) ==
    [name |-> name, kind |-> kind, attr |-> attr, children |-> children, f |-> f]

NoNode == Node("", "None", {}, NoChildren, NoFields)

Seg(name, f) == Node(name, "seg", {}, NoChildren, f)

\* the value of an attribute lookup: "absent" (AttributeError, so that
\* getattr returns its default), "none", "node" or "raises"
AttrVal(kind, node) == [kind |-> kind, node |-> node]

AttrAbsent == AttrVal("absent", NoNode)

AttrRaises == AttrVal("raises", NoNode)

AttrNode(n) == AttrVal("node", n)

\* getattr(node, name) before any default is applied
GetAttr(node, name) ==
    IF \E a \in node.attr : a[1] = name
    THEN (CHOOSE a \in node.attr : a[1] = name)[2]
    ELSE AttrAbsent

\* the outcome of getattr(node, name, None) for the attribute value v
AttrOrNone(v) ==
    IF v.kind = "raises" THEN [exc |-> "Exception", value |-> NoNode]
    ELSE IF v.kind = "node" THEN Returned(v.node)
    ELSE [exc |-> "none", value |-> NoNode]

\* getattr(node, name, None): the node, NoNode for None, or an exception
GetAttrOrNone(node, name) == AttrOrNone(GetAttr(node, name))

\* bool(x) of a node: None and the empty list are false
Truthy(node) == node.kind = "seg"

\* x.to_er7() if hasattr(x, "to_er7") else str(x), for a leaf that is there
LeafEr7(leaf) ==
    IF leaf.kind = "text" THEN Returned(leaf.text)
    ELSE [exc |-> "Exception", value |-> <<>>]

\* --------------------------------------------------------------------------
\* What the FHIR model classes accept (fhir.resources validates on
\* construction and on assignment)
\* --------------------------------------------------------------------------

IdChars ==
    {Lowers[i] : i \in 1..26} \cup {Uppers[i] : i \in 1..26} \cup
    {Digits[i] : i \in 1..10} \cup {"-", "."}

\* the id setter of a resource: the FHIR id pattern
\* (tests/test_adt_a08.py: "underscore invalid per FHIR id pattern"), at most
\* 64 characters
IdAccepted(t) ==
    /\ Len(t) >= 1
    /\ Len(t) <= 64
    /\ \A i \in 1..Len(t) : t[i] \in IdChars

\* Coding(code=t): the FHIR code pattern, no leading, trailing or doubled
\* white space
CodeAccepted(t) ==
    /\ Len(t) >= 1
    /\ ~IsSpace(t[1])
    /\ ~IsSpace(t[Len(t)])
    /\ \A i \in 1..(Len(t) - 1) : ~(IsSpace(t[i]) /\ IsSpace(t[i + 1]))

\* int(s) for a string of digits
RECURSIVE ToInt(_)
ToInt(s) == IF s = <<>> THEN 0 ELSE 10 * ToInt(SubSeq(s, 1, Len(s) - 1)) + DigitVal(s[Len(s)])

IsLeap(y) == (y % 4 = 0 /\ y % 100 # 0) \/ y % 400 = 0

DaysIn(y, m) ==
    IF m \in {4, 6, 9, 11} THEN 30
    ELSE IF m = 2 THEN (IF IsLeap(y) THEN 29 ELSE 28)
    ELSE 31

\* datetime.strptime(s8, "%Y%m%d") succeeds on the 8 characters s8
ValidYmd(s8) ==
    /\ Len(s8) = 8
    /\ IsDigitStr(s8)
    /\ ToInt(SubSeq(s8, 1, 4)) >= 1
    /\ ToInt(SubSeq(s8, 5, 6)) \in 1..12
    /\ ToInt(SubSeq(s8, 7, 8)) \in 1..DaysIn(ToInt(SubSeq(s8, 1, 4)), ToInt(SubSeq(s8, 5, 6)))

\* date(...).isoformat() of the 8 digits s8: YYYY-MM-DD
IsoDate(s8) ==
    SubSeq(s8, 1, 4) \o <<"-">> \o SubSeq(s8, 5, 6) \o <<"-">> \o SubSeq(s8, 7, 8)

\* Patient.birthDate = t for a text t of the shapes _pid_birthdate returns
\* (YYYY, YYYY-MM, YYYY-MM-DD): accepted when it is a FHIR date
BirthDateAccepted(t) ==
    CASE Len(t) = 4 -> ToInt(t) >= 1
      [] Len(t) = 7 -> ToInt(SubSeq(t, 1, 4)) >= 1 /\ ToInt(SubSeq(t, 6, 7)) \in 1..12
      [] Len(t) = 10 -> ValidYmd(SubSeq(t, 1, 4) \o SubSeq(t, 6, 7) \o SubSeq(t, 9, 10))
      [] OTHER -> FALSE

\* --------------------------------------------------------------------------
\* Output records
\* --------------------------------------------------------------------------

\* Patient(); text fields hold None when unset, gender holds "absent"
EmptyPatient ==
    [resourceType |-> "Patient", id |-> None, identifier |-> None,
     family |-> None, given |-> <<>>, birthDate |-> None, gender |-> "absent"]

\* Encounter; class is present iff hasClass, coding holds its codes
EmptyEncounter ==
    [resourceType |-> "Encounter", id |-> None, status |-> "absent",
     hasClass |-> FALSE, coding |-> <<>>, periodStart |-> None,
     periodEnd |-> None]

\* the state of a try block that assigns to a record p step by step: once exc
\* is set the remaining steps of the block are skipped
Going(p) == [p |-> p, exc |-> FALSE]

Aborted(p) == [p |-> p, exc |-> TRUE]

\* a normaliser that also accepts the YYYY-MM-DD it produces
ParseYyyymmddOrIso(t) ==
    IF Len(t) >= 8 /\ IsDigitStr(Prefix(t, 8)) /\ ValidYmd(Prefix(t, 8))
    THEN IsoDate(Prefix(t, 8))
    ELSE IF Len(t) = 10 /\ t[5] = "-" /\ t[8] = "-"
            /\ ValidYmd(SubSeq(t, 1, 4) \o SubSeq(t, 6, 7) \o SubSeq(t, 9, 10))
         THEN t
    ELSE None

\* the date of the stripped text t, None when its first 8 characters are no
\* date
ParseYyyymmdd(t) ==
    IF Len(t) >= 8 /\ IsDigitStr(Prefix(t, 8)) /\ ValidYmd(Prefix(t, 8))
    THEN IsoDate(Prefix(t, 8))
    ELSE None

\* _parse_hl7_yyyymmdd(val) for an element val; None when it does not parse
ParseHl7Yyyymmdd(leaf) ==
    IF leaf.kind # "text" THEN None ELSE ParseYyyymmdd(Strip(leaf.text))

\* --------------------------------------------------------------------------
\* adt_a01.py
\* --------------------------------------------------------------------------

\* _safe_str(value) for a leaf that is there or None
SafeStr(leaf) ==
    CASE leaf.kind = "text" -> leaf.text
      [] leaf.kind = "none" -> NoneText
      [] OTHER -> <<>>

\* _pid_identifier(pid)
PidIdentifier(f) ==
    IF f.pid_3.kind # "rep" THEN None
    ELSE LET c == f.pid_3.c.cx_1
         IN  IF c.kind \in {"text", "er7raises"} THEN SafeStr(c) ELSE None

\* _pid_name(pid): family and the list of given names
PidName(f) ==
    IF f.pid_5.kind # "rep" THEN [family |-> None, given |-> <<>>]
    ELSE LET fam == f.pid_5.c.family_name
             giv == f.pid_5.c.given_name
             family == IF fam.kind \in {"text", "er7raises"} THEN SafeStr(fam) ELSE None
         IN  IF fam.kind = "raises" THEN [family |-> None, given |-> <<>>]
             ELSE IF giv.kind \in {"text", "er7raises"}
                  THEN [family |-> family, given |-> <<SafeStr(giv)>>]
             ELSE [family |-> family, given |-> <<>>]

\* the birth date when PID-7 goes through the normaliser of the other modules
PidBirthdateByPrefix(f) == ParseHl7Yyyymmdd(f.pid_7)

\* _pid_birthdate(pid)
PidBirthdate(f) ==
    IF f.pid_7.kind \notin {"text", "er7raises"} THEN None
    ELSE LET raw == Strip(SafeStr(f.pid_7))
         IN  IF ~IsDigitStr(raw) THEN None
             ELSE IF Len(raw) = 8
                  THEN SubSeq(raw, 1, 4) \o <<"-">> \o SubSeq(raw, 5, 6) \o <<"-">> \o
                       SubSeq(raw, 7, 8)
             ELSE IF Len(raw) = 6 THEN SubSeq(raw, 1, 4) \o <<"-">> \o SubSeq(raw, 5, 6)
             ELSE IF Len(raw) = 4 THEN raw
             ELSE None

\* _pid_gender(pid); "absent" for None
PidGender(f) ==
    IF f.pid_8.kind = "raises" THEN "absent"
    ELSE LET val == IF f.pid_8.kind = "absent" THEN <<>>
                    ELSE Upper(Strip(SafeStr(f.pid_8)))
         IN  IF val = <<>> THEN "absent"
             ELSE IF val[1] = "M" THEN "male"
             ELSE IF val[1] = "F" THEN "female"
             ELSE IF val[1] = "O" THEN "other"
             ELSE "unknown"

\* "" and None are false
NonEmpty(t) == t # None /\ t # <<>>

\* the Patient of _build_patient from the values read: the assignments to
\* the Patient are outside any try
A01PatientOf(ident_val, nm, birth, gender) ==
    LET p1 == IF NonEmpty(ident_val)
              THEN [EmptyPatient EXCEPT !.identifier = ident_val]
              ELSE EmptyPatient
        p2 == IF NonEmpty(nm.family) \/ nm.given # <<>>
              THEN [p1 EXCEPT !.family = IF NonEmpty(nm.family) THEN nm.family
                                         ELSE None,
                              !.given = nm.given]
              ELSE p1
        p3 == IF NonEmpty(birth) THEN [p2 EXCEPT !.birthDate = birth] ELSE p2
        p4 == IF gender # "absent" THEN [p3 EXCEPT !.gender = gender] ELSE p3
    IN  IF NonEmpty(birth) /\ ~BirthDateAccepted(birth)
        THEN [exc |-> "Exception", value |-> p2]
        ELSE Returned(p4)

\* ADTA01Transformer._build_patient(pid)
A01BuildPatient(pid) ==
    IF pid.kind = "None" THEN Returned(EmptyPatient)
    ELSE A01PatientOf(PidIdentifier(pid.f), PidName(pid.f), PidBirthdate(pid.f),
                      PidGender(pid.f))

\* ADTA01Transformer._build_encounter(pv1)
A01BuildEncounter(pv1) ==
    IF pv1.kind = "None" THEN EmptyEncounter
    ELSE [EmptyEncounter EXCEPT !.status = "in-progress"]

\* the outcome of the two nested getattr calls: the inner one, lo, is
\* evaluated first
UpperOrLower(up, lo) ==
    IF lo.exc # "none" THEN lo
    ELSE IF up.kind = "raises" THEN [exc |-> "Exception", value |-> NoNode]
    ELSE IF up.kind = "absent" THEN lo
    ELSE IF up.kind = "node" THEN Returned(up.node)
    ELSE Returned(NoNode)

\* getattr(msg, "PID", getattr(msg, "pid", None))
GetAttrUpperLower(msg, upper, lower) ==
    UpperOrLower(GetAttr(msg, upper), GetAttrOrNone(msg, lower))

\* the return value of transform: an exception of an accessor or of
\* _build_patient leaves transform
A01Records(pid, pv1, patient) ==
    IF pid.exc # "none" THEN [exc |-> "Exception", value |-> <<>>]
    ELSE IF patient.exc # "none" THEN [exc |-> "Exception", value |-> <<>>]
    ELSE IF pv1.exc # "none" THEN [exc |-> "Exception", value |-> <<>>]
    ELSE Returned(<<patient.value, A01BuildEncounter(pv1.value)>>)

\* transform once msg.PID is read
A01With(msg, pid) ==
    A01Records(pid, GetAttrUpperLower(msg, "PV1", "pv1"), A01BuildPatient(pid.value))

\* ADTA01Transformer.transform
TransformA01(msg) == A01With(msg, GetAttrUpperLower(msg, "PID", "pid"))

\* --------------------------------------------------------------------------
\* adt_a03.py
\* --------------------------------------------------------------------------

\* x.to_er7() if x is not None and has to_er7, "" for None, inside a try:
\* the text, or the block aborts
A03NamePart(leaf) ==
    CASE leaf.kind = "text" -> Returned(leaf.text)
      [] leaf.kind \in {"none", "absent"} -> Returned(<<>>)
      [] OTHER -> [exc |-> "Exception", value |-> <<>>]

\* PID-5 of ADTA03Transformer.transform
A03Pid5(st, f) ==
    IF st.exc THEN st
    ELSE IF f.pid_5.kind = "raises" THEN Aborted(st.p)
    ELSE IF f.pid_5.kind = "none" THEN st
    ELSE LET family == A03NamePart(f.pid_5.c.family_name)
             given == A03NamePart(f.pid_5.c.given_name)
         IN  IF family.exc # "none" \/ given.exc # "none" THEN Aborted(st.p)
             ELSE IF family.value # <<>> \/ given.value # <<>>
                  THEN Going([st.p EXCEPT
                                 !.family = IF family.value # <<>> THEN family.value
                                            ELSE None,
                                 !.given = IF given.value # <<>> THEN <<given.value>>
                                           ELSE <<>>])
             ELSE st

\* PID-3 of ADTA03Transformer.transform
A03Pid3(st, f) ==
    IF st.exc THEN st
    ELSE IF f.pid_3.kind = "raises" THEN Aborted(st.p)
    ELSE IF f.pid_3.kind = "none" THEN st
    ELSE LET cx_1 == f.pid_3.c.cx_1
         IN  IF cx_1.kind \in {"raises", "er7raises"} THEN Aborted(st.p)
             ELSE IF cx_1.kind # "text" \/ cx_1.text = <<>> THEN st
             ELSE IF IdAccepted(cx_1.text) THEN Going([st.p EXCEPT !.id = cx_1.text])
             ELSE Aborted(st.p)

\* _parse_hl7_ts(ts)
ParseHl7Ts(ts) ==
    IF Len(ts) >= 8 /\ ValidYmd(Prefix(ts, 8)) THEN IsoDate(Prefix(ts, 8)) ELSE None

\* the encounter fields read from PV1 inside one try
NoVisit ==
    [hasClass |-> FALSE, code |-> <<>>, encounter_id |-> None, start |-> None,
     end |-> None]

\* PV1-2 of ADTA03Transformer.transform and ADTA08Transformer._build_encounter
PV1Class(st, f) ==
    IF st.exc THEN st
    ELSE IF f.pv1_2.kind = "raises" THEN Aborted(st.p)
    ELSE IF f.pv1_2.kind \in {"none", "absent"} THEN st
    ELSE IF f.pv1_2.kind = "er7raises" THEN Aborted(st.p)
    ELSE IF ~CodeAccepted(f.pv1_2.text) THEN Aborted(st.p)
    ELSE Going([st.p EXCEPT !.hasClass = TRUE, !.code = f.pv1_2.text])

\* PV1-19 of ADTA03Transformer.transform and ADTA08Transformer._build_encounter
PV1EncounterId(st, f) ==
    IF st.exc THEN st
    ELSE IF f.pv1_19.kind = "raises" THEN Aborted(st.p)
    ELSE IF f.pv1_19.kind \in {"none", "absent"} THEN st
    ELSE IF f.pv1_19.kind = "er7raises" THEN Aborted(st.p)
    ELSE Going([st.p EXCEPT !.encounter_id = f.pv1_19.text])

\* PV1-44 and PV1-45 of ADTA03Transformer.transform: both are read, then
\* each is rendered and parsed
A03Period(st, f) ==
    IF st.exc THEN st
    ELSE IF f.pv1_44.kind = "raises" \/ f.pv1_45.kind = "raises" THEN Aborted(st.p)
    ELSE IF f.pv1_44.kind = "er7raises" THEN Aborted(st.p)
    ELSE LET s1 == IF f.pv1_44.kind = "text"
                   THEN [st.p EXCEPT !.start = ParseHl7Ts(f.pv1_44.text)]
                   ELSE st.p
         IN  IF f.pv1_45.kind = "er7raises" THEN Aborted(s1)
             ELSE IF f.pv1_45.kind = "text"
                  THEN Going([s1 EXCEPT !.end = ParseHl7Ts(f.pv1_45.text)])
             ELSE Going(s1)

\* "enc-" / "sr-" / "obs-" / "Patient/" and the placeholders
TxtEnc == <<"e", "n", "c", "-">>

TxtSr == <<"s", "r", "-">>

TxtObs == <<"o", "b", "s", "-">>

TxtPatientRef == <<"P", "a", "t", "i", "e", "n", "t", "/">>

TxtUnknown == <<"u", "n", "k", "n", "o", "w", "n">>

\* str(x) inside an f-string for an optional text
FmtStr(t) == IF t = None THEN NoneText ELSE t

\* (x or 'unknown') for an optional text
OrUnknown(t) == IF NonEmpty(t) THEN t ELSE TxtUnknown

\* the Encounter that model_construct builds from the visit fields
VisitEncounter(v, status, fallback_id) ==
    [resourceType |-> "Encounter",
     id |-> IF NonEmpty(v.encounter_id) THEN v.encounter_id ELSE fallback_id,
     status |-> status, hasClass |-> TRUE,
     coding |-> IF v.hasClass THEN <<v.code>> ELSE <<>>,
     periodStart |-> v.start, periodEnd |-> v.end]

\* ADTA03Transformer.transform
TransformA03(msg) ==
    LET pid == GetAttrOrNone(msg, "PID")
        pv1 == GetAttrOrNone(msg, "PV1")
        patient == IF Truthy(pid.value)
                   THEN A03Pid3(A03Pid5(Going(EmptyPatient), pid.value.f), pid.value.f).p
                   ELSE EmptyPatient
        visit == IF Truthy(pv1.value)
                 THEN A03Period(PV1EncounterId(PV1Class(Going(NoVisit), pv1.value.f),
                                               pv1.value.f), pv1.value.f).p
                 ELSE NoVisit
        \* getattr(patient, 'id', 'unknown'): the attribute is always there
        fallback_id == TxtEnc \o FmtStr(patient.id)
    IN  IF pid.exc # "none" \/ pv1.exc # "none" THEN [exc |-> "Exception", value |-> <<>>]
        ELSE Returned(<<patient, VisitEncounter(visit, "finished", fallback_id)>>)

\* --------------------------------------------------------------------------
\* adt_a08.py
\* --------------------------------------------------------------------------

\* PID-3 of ADTA08Transformer._build_patient
A08Pid3(st, f) ==
    IF st.exc THEN st
    ELSE IF f.pid_3.kind = "raises" THEN Aborted(st.p)
    ELSE IF f.pid_3.kind = "none" THEN st
    ELSE LET cx_1 == f.pid_3.c.cx_1
         IN  IF cx_1.kind = "raises" THEN Aborted(st.p)
             ELSE IF cx_1.kind = "text" /\ cx_1.text # <<>> /\ IdAccepted(cx_1.text)
                  THEN Going([st.p EXCEPT !.id = cx_1.text])
             ELSE st

\* the rendering of a name part of ADTA08Transformer._build_patient
A08NamePart(leaf) ==
    CASE leaf.kind = "text" -> Returned(leaf.text)
      [] leaf.kind \in {"none", "absent"} -> Returned(None)
      [] OTHER -> [exc |-> "Exception", value |-> None]

\* PID-5 of ADTA08Transformer._build_patient
A08Pid5(st, f) ==
    IF st.exc THEN st
    ELSE IF f.pid_5.kind = "raises" THEN Aborted(st.p)
    ELSE IF f.pid_5.kind = "none" THEN st
    ELSE LET fam == A08NamePart(f.pid_5.c.family_name)
             giv == A08NamePart(f.pid_5.c.given_name)
         IN  IF fam.exc # "none" \/ giv.exc # "none" THEN Aborted(st.p)
             ELSE IF NonEmpty(fam.value) \/ NonEmpty(giv.value)
                  THEN Going([st.p EXCEPT
                                 !.family = IF NonEmpty(fam.value) THEN fam.value ELSE None,
                                 !.given = IF NonEmpty(giv.value) THEN <<giv.value>>
                                           ELSE <<>>])
             ELSE st

\* PID-7 of ADTA08Transformer._build_patient
A08Pid7(st, f) ==
    IF st.exc THEN st
    ELSE IF f.pid_7.kind = "raises" THEN Aborted(st.p)
    ELSE LET bd == ParseHl7Yyyymmdd(f.pid_7)
         IN  IF NonEmpty(bd) THEN Going([st.p EXCEPT !.birthDate = bd]) ELSE st

\* PID-8 of ADTA08Transformer._build_patient
A08Pid8(st, f) ==
    IF st.exc THEN st
    ELSE IF f.pid_8.kind = "raises" THEN Aborted(st.p)
    ELSE IF f.pid_8.kind \in {"none", "absent"} THEN st
    ELSE LET v == IF f.pid_8.kind = "text" THEN Upper(Strip(f.pid_8.text)) ELSE <<>>
         IN  Going([st.p EXCEPT !.gender = IF v = <<"M">> THEN "male"
                                            ELSE IF v = <<"F">> THEN "female"
                                            ELSE "unknown"])

\* ADTA08Transformer._build_patient(pid)
A08BuildPatient(pid) ==
    IF ~Truthy(pid) THEN EmptyPatient
    ELSE A08Pid8(A08Pid7(A08Pid5(A08Pid3(Going(EmptyPatient), pid.f), pid.f), pid.f),
                 pid.f).p

\* PV1-44 and PV1-45 of ADTA08Transformer._build_encounter
A08Period(st, f) ==
    IF st.exc THEN st
    ELSE IF f.pv1_44.kind = "raises" \/ f.pv1_45.kind = "raises" THEN Aborted(st.p)
    ELSE Going([st.p EXCEPT
                   !.start = IF f.pv1_44.kind \in {"text", "er7raises"}
                             THEN ParseHl7Yyyymmdd(f.pv1_44) ELSE None,
                   !.end = IF f.pv1_45.kind \in {"text", "er7raises"}
                           THEN ParseHl7Yyyymmdd(f.pv1_45) ELSE None])

\* ADTA08Transformer._build_encounter(pv1, patient)
A08BuildEncounter(pv1, patient) ==
    LET visit == IF Truthy(pv1)
                 THEN A08Period(PV1EncounterId(PV1Class(Going(NoVisit), pv1.f), pv1.f),
                                pv1.f).p
                 ELSE NoVisit
    IN  VisitEncounter(visit, "in-progress", TxtEnc \o OrUnknown(patient.id))

\* ADTA08Transformer.transform
TransformA08(msg) ==
    LET pid == GetAttrOrNone(msg, "PID")
        pv1 == GetAttrOrNone(msg, "PV1")
        patient == A08BuildPatient(pid.value)
    IN  IF pid.exc # "none" \/ pv1.exc # "none" THEN [exc |-> "Exception", value |-> <<>>]
        ELSE Returned(<<patient, A08BuildEncounter(pv1.value, patient)>>)

\* --------------------------------------------------------------------------
\* orm_o01.py and oru_r01.py: helpers on the rendered text
\* --------------------------------------------------------------------------

\* msg.er7 is what msg.to_er7() does: kind "text" returns msg.er7.text,
\* "raises" raises, "nomethod" means the message has no to_er7
Er7(kind, text) == [kind |-> kind, text |-> text]

\* _er7(msg)
Er7OfMessage(msg) ==
    CASE msg.er7.kind = "text" -> Strip(msg.er7.text)
      [] msg.er7.kind = "nomethod" -> ObjRepr
      [] OTHER -> <<>>

\* str(msg.to_er7()) or "" inside _first_segment_line
Er7ForLines(msg) == IF msg.er7.kind = "text" THEN msg.er7.text ELSE <<>>

\* the first element of lines that starts with prefix, None when none does
RECURSIVE FirstStartingWith(_, _)
FirstStartingWith(lines, prefix) ==
    IF lines = <<>> THEN None
    ELSE IF StartsWith(Head(lines), prefix) THEN Head(lines)
    ELSE FirstStartingWith(Tail(lines), prefix)

\* the first line when only CRLF and LF end a line
FirstSegmentLineNoCR(msg, seg_name) ==
    LET s == Er7ForLines(msg)
    IN  IF s = <<>> THEN None
        ELSE FirstStartingWith(Split(ReplaceCRLF(s), LF), seg_name \o <<"|">>)

\* _first_segment_line(msg, seg_name) of oru_r01.py
OruFirstSegmentLine(msg, seg_name) ==
    LET s == Er7ForLines(msg)
    IN  IF s = <<>> THEN None
        ELSE FirstStartingWith(Split(ReplaceChar(ReplaceCRLF(s), CR, LF), LF),
                               seg_name \o <<"|">>)

\* _first_segment_line(msg, seg_name) of orm_o01.py
OrmFirstSegmentLine(msg, seg_name) ==
    LET s == Er7ForLines(msg)
    IN  IF s = <<>> THEN None
        ELSE FirstStartingWith(Split(ReplaceChar(s, LF, CR), CR), seg_name \o <<"|">>)

\* the component returned as it stands in the line, white space included
CompOfCompsUntrimmed(comps, comp_index) ==
    IF comp_index < 1 \/ Len(comps) < comp_index THEN None
    ELSE IF comps[comp_index] # <<>> THEN comps[comp_index]
    ELSE None

\* the component of _field_comp_from_er7 among comps, the parts of one field
CompOfComps(comps, comp_index) ==
    IF comp_index < 1 \/ Len(comps) < comp_index THEN None
    ELSE IF Strip(comps[comp_index]) # <<>> THEN Strip(comps[comp_index])
    ELSE None

\* the component of _field_comp_from_er7 among parts, the fields of a line
CompOfFields(parts, field_index, comp_index) ==
    IF field_index < 1 \/ Len(parts) <= field_index THEN None
    ELSE CompOfComps(IF parts[field_index + 1] # <<>>
                     THEN Split(parts[field_index + 1], "^") ELSE <<>>,
                     comp_index)

\* _field_comp_from_er7(er7_line, field_index, comp_index)
FieldCompFromEr7(er7_line, field_index, comp_index) ==
    IF er7_line = None \/ er7_line = <<>> THEN None
    ELSE CompOfFields(Split(Strip(er7_line), "|"), field_index, comp_index)

\* _er7(x) for a leaf x that is not None
LeafText_er7(leaf) == IF leaf.kind = "text" THEN Strip(leaf.text) ELSE <<>>

\* 'PID', 'PV1', 'ORC', 'OBR', 'OBX'
TxtPID == <<"P", "I", "D">>

TxtORC == <<"O", "R", "C">>

TxtOBR == <<"O", "B", "R">>

TxtOBX == <<"O", "B", "X">>

\* --------------------------------------------------------------------------
\* orm_o01.py and oru_r01.py: _find_first
\* --------------------------------------------------------------------------

\* _is_truthy_container(x) of oru_r01.py: None and the empty list are false
IsTruthyContainer(node) == node.kind = "seg"

\* the first node of nodes with the given name (and, when truthy is asked,
\* a non-empty one); NoNode when there is none
RECURSIVE FirstChildNamed(_, _, _)
FirstChildNamed(nodes, seg_name, truthy) ==
    IF nodes = <<>> THEN NoNode
    ELSE IF Head(nodes).name = seg_name /\ (~truthy \/ IsTruthyContainer(Head(nodes)))
         THEN Head(nodes)
    ELSE FirstChildNamed(Tail(nodes), seg_name, truthy)

\* bool(getattr(ch, "children", None)): a non-empty list of children
HasChildren(ch) == ch.children.kind = "list" /\ ch.children.nodes # <<>>

\* _find_first(msg_or_group, seg_name) of oru_r01.py (strict) and of
\* orm_o01.py (not strict, which returns an empty container it meets)
RECURSIVE FindFirst(_, _, _)
RECURSIVE FindFirstBelow(_, _, _)
FindFirst(node, seg_name, strict) ==
    LET cand == GetAttr(node, seg_name)
        found1 == cand.kind = "node" /\ (~strict \/ IsTruthyContainer(cand.node))
        nodes == IF node.children.kind = "list" THEN node.children.nodes ELSE <<>>
        direct == FirstChildNamed(nodes, seg_name, strict)
    IN  IF found1 THEN Returned(cand.node)
        ELSE IF node.children.kind = "none"
             THEN \* `for ch in children` over None: TypeError outside any try
                  [exc |-> "Exception", value |-> NoNode]
        ELSE IF direct.kind # "None" THEN Returned(direct)
        ELSE Returned(FindFirstBelow(nodes, seg_name, strict))

\* the third loop of _find_first: the first child with children under which
\* the segment is found; an exception below a child is swallowed
FindFirstBelow(nodes, seg_name, strict) ==
    IF nodes = <<>> THEN NoNode
    ELSE LET ch == Head(nodes)
             found == IF HasChildren(ch) THEN FindFirst(ch, seg_name, strict)
                      ELSE Returned(NoNode)
         IN  IF found.exc = "none" /\ found.value.kind # "None"
                /\ (~strict \/ IsTruthyContainer(found.value))
             THEN found.value
             ELSE FindFirstBelow(Tail(nodes), seg_name, strict)

\* _find_first of oru_r01.py
OruFindFirst(node, seg_name) == FindFirst(node, seg_name, TRUE)

\* _find_first of orm_o01.py
OrmFindFirst(node, seg_name) == FindFirst(node, seg_name, FALSE)

\* --------------------------------------------------------------------------
\* orm_o01.py and oru_r01.py: _build_patient (the two are the same code)
\* --------------------------------------------------------------------------

\* getattr(rep0, "cx_1", None) or getattr(rep0, "id_number", None), and the
\* like for the two names of a component: both name the same component
\* (x or y) of two optional texts
OrText(x, y) == IF NonEmpty(x) THEN x ELSE y

\* Patient.id from the structured PID-3, from the raw component raw when the
\* structured one is empty
Pid3Of(st, pid, raw) ==
    LET r == pid.f.pid_3
        val == IF pid.kind # "None" /\ r.kind = "rep"
                  /\ r.c.cx_1.kind \in {"text", "er7raises"}
               THEN LeafText_er7(r.c.cx_1)
               ELSE None
        val2 == IF NonEmpty(val) THEN val ELSE raw
    IN  IF pid.kind # "None" /\ r.kind = "raises" THEN Aborted(st.p)
        ELSE IF pid.kind # "None" /\ r.kind = "rep" /\ r.c.cx_1.kind = "raises"
             THEN Aborted(st.p)
        ELSE IF NonEmpty(val2) /\ IdAccepted(val2)
             THEN Going([st.p EXCEPT !.id = val2])
        ELSE st

\* PID-3 -> Patient.id
RawPid3(st, pid, pid_line) ==
    IF st.exc THEN st ELSE Pid3Of(st, pid, FieldCompFromEr7(pid_line, 3, 1))

\* the structured text of a name part, None when the part is not there
RawNamePart(leaf) ==
    IF leaf.kind \in {"text", "er7raises"} THEN LeafText_er7(leaf) ELSE None

\* Patient.name[0] from the structured PID-5, from the raw components when
\* the structured ones are empty
Pid5Of(st, pid, raw_fam, raw_giv) ==
    LET r == pid.f.pid_5
        has == pid.kind # "None" /\ r.kind = "rep"
        fam0 == IF has THEN RawNamePart(r.c.family_name) ELSE None
        giv0 == IF has THEN RawNamePart(r.c.given_name) ELSE None
        useRaw == ~(NonEmpty(fam0) \/ NonEmpty(giv0))
        fam == IF useRaw THEN OrText(raw_fam, fam0) ELSE fam0
        giv == IF useRaw THEN OrText(raw_giv, giv0) ELSE giv0
    IN  IF pid.kind # "None" /\ r.kind = "raises" THEN Aborted(st.p)
        ELSE IF has /\ (r.c.family_name.kind = "raises"
                        \/ r.c.given_name.kind = "raises")
             THEN Aborted(st.p)
        ELSE IF NonEmpty(fam) \/ NonEmpty(giv)
             THEN Going([st.p EXCEPT
                            !.family = IF NonEmpty(fam) THEN fam ELSE None,
                            !.given = IF NonEmpty(giv) THEN <<giv>> ELSE <<>>])
        ELSE st

\* PID-5 -> Patient.name[0]
RawPid5(st, pid, pid_line) ==
    IF st.exc THEN st
    ELSE Pid5Of(st, pid, FieldCompFromEr7(pid_line, 5, 1),
                FieldCompFromEr7(pid_line, 5, 2))

\* Patient.birthDate from the parsed PID-7 bd0, from the raw component raw_bd
\* when there is none: strptime on the raw text is not guarded, so an
\* impossible date aborts the rest of the block
Pid7Of(st, pid, bd0, raw_bd) ==
    LET rawOk == NonEmpty(raw_bd) /\ Len(raw_bd) >= 8 /\ IsDigitStr(Prefix(raw_bd, 8))
    IN  IF pid.kind # "None" /\ pid.f.pid_7.kind = "raises" THEN Aborted(st.p)
        ELSE IF NonEmpty(bd0) THEN Going([st.p EXCEPT !.birthDate = bd0])
        ELSE IF ~rawOk THEN st
        ELSE IF ValidYmd(Prefix(raw_bd, 8))
             THEN Going([st.p EXCEPT !.birthDate = IsoDate(Prefix(raw_bd, 8))])
        ELSE Aborted(st.p)

\* PID-7 -> Patient.birthDate
RawPid7(st, pid, pid_line) ==
    IF st.exc THEN st
    ELSE Pid7Of(st, pid,
                IF pid.kind # "None" THEN ParseHl7Yyyymmdd(pid.f.pid_7) ELSE None,
                FieldCompFromEr7(pid_line, 7, 1))

\* Patient.gender from the structured PID-8, from the raw component raw when
\* the structured one is empty
Pid8Of(st, pid, raw) ==
    LET v0 == IF pid.kind # "None" /\ pid.f.pid_8.kind \in {"text", "er7raises"}
              THEN LeafText_er7(pid.f.pid_8)
              ELSE None
        v1 == IF NonEmpty(v0) THEN v0 ELSE raw
        v == IF NonEmpty(v1) THEN Upper(v1) ELSE <<>>
    IN  IF pid.kind # "None" /\ pid.f.pid_8.kind = "raises" THEN Aborted(st.p)
        ELSE IF v = <<>> THEN st
        ELSE Going([st.p EXCEPT !.gender = IF v = <<"M">> THEN "male"
                                            ELSE IF v = <<"F">> THEN "female"
                                            ELSE "unknown"])

\* PID-8 -> Patient.gender
RawPid8(st, pid, pid_line) ==
    IF st.exc THEN st ELSE Pid8Of(st, pid, FieldCompFromEr7(pid_line, 8, 1))

\* ORUR01Transformer._build_patient(pid, pid_line)
OruBuildPatient(pid, pid_line) ==
    IF pid.kind = "None" /\ ~NonEmpty(pid_line) THEN EmptyPatient
    ELSE RawPid8(RawPid7(RawPid5(RawPid3(Going(EmptyPatient), pid, pid_line),
                                 pid, pid_line), pid, pid_line), pid, pid_line).p

\* ORMO01Transformer._build_patient(pid, pid_line)
OrmBuildPatient(pid, pid_line) == OruBuildPatient(pid, pid_line)

\* --------------------------------------------------------------------------
\* orm_o01.py: ServiceRequest
\* --------------------------------------------------------------------------

\* the structured text of a scalar field (orc_2, orc_3, orc_5), None when the
\* segment or the field is not there; the block aborts when reading it raises
ScalarField(seg, leaf) ==
    IF seg.kind = "None" THEN Returned(None)
    ELSE IF leaf.kind = "raises" THEN [exc |-> "Exception", value |-> None]
    ELSE IF leaf.kind \in {"text", "er7raises"} THEN Returned(LeafText_er7(leaf))
    ELSE Returned(None)

\* identifiers that keep the filler number next to the placer number
OrmIdentifiersBoth(s2, raw2, s3, raw3) ==
    LET val2 == IF NonEmpty(s2.value) THEN s2.value ELSE raw2
        val3 == IF NonEmpty(s3.value) THEN s3.value ELSE raw3
    IN  IF s2.exc # "none" THEN [identifiers |-> <<>>, sr_id |-> None]
        ELSE IF NonEmpty(val2)
             THEN [identifiers |-> IF s3.exc = "none" /\ NonEmpty(val3)
                                   THEN <<val2, val3>> ELSE <<val2>>,
                   sr_id |-> val2]
        ELSE IF s3.exc # "none" THEN [identifiers |-> <<>>, sr_id |-> None]
        ELSE IF NonEmpty(val3) THEN [identifiers |-> <<val3>>, sr_id |-> val3]
        ELSE [identifiers |-> <<>>, sr_id |-> None]

\* identifiers and sr_id from the structured fields s2 and s3, from the raw
\* components when a structured one is empty
OrmIdentifiersOf(s2, raw2, s3, raw3) ==
    LET val2 == IF NonEmpty(s2.value) THEN s2.value ELSE raw2
        val3 == IF NonEmpty(s3.value) THEN s3.value ELSE raw3
    IN  IF s2.exc # "none" THEN [identifiers |-> <<>>, sr_id |-> None]
        ELSE IF NonEmpty(val2)
             THEN [identifiers |-> <<val2>>, sr_id |-> val2]
        ELSE IF s3.exc # "none" THEN [identifiers |-> <<>>, sr_id |-> None]
        ELSE IF NonEmpty(val3) THEN [identifiers |-> <<val3>>, sr_id |-> val3]
        ELSE [identifiers |-> <<>>, sr_id |-> None]

\* identifiers and sr_id from ORC-2 (placer) and ORC-3 (filler)
OrmIdentifiers(orc, orc_line) ==
    OrmIdentifiersOf(ScalarField(orc, orc.f.orc_2), FieldCompFromEr7(orc_line, 2, 1),
                     ScalarField(orc, orc.f.orc_3), FieldCompFromEr7(orc_line, 3, 1))

\* a coded concept: present iff has; code and text are optional texts
NoConcept == [has |-> FALSE, code |-> None, text |-> None]

\* the text of one component of a coded element (obr_4, obx_3, obx_6) read
\* under either of its names, None when it is not there
CodedPart(leaf) ==
    IF leaf.kind \in {"text", "er7raises"} THEN LeafText_er7(leaf) ELSE None

\* code from OBR-4: the raw components first, the structured field when the
\* line has neither code nor text
OrmCodeOf(obr, raw_code, raw_text) ==
    LET useSeg == ~(NonEmpty(raw_code) \/ NonEmpty(raw_text)) /\ obr.kind # "None"
        r == obr.f.obr_4
        code_val == IF useSeg /\ r.kind = "rep" THEN CodedPart(r.c.identifier) ELSE raw_code
        text_val == IF useSeg /\ r.kind = "rep" THEN CodedPart(r.c.text) ELSE raw_text
    IN  IF useSeg /\ r.kind = "raises" THEN NoConcept
        ELSE IF useSeg /\ r.kind = "rep"
                /\ (r.c.identifier.kind = "raises" \/ r.c.text.kind = "raises")
             THEN NoConcept
        ELSE IF ~(NonEmpty(code_val) \/ NonEmpty(text_val)) THEN NoConcept
        ELSE IF NonEmpty(code_val) /\ ~CodeAccepted(code_val) THEN NoConcept
        ELSE [has |-> TRUE, code |-> IF NonEmpty(code_val) THEN code_val ELSE None,
              text |-> text_val]

\* code from OBR-4
OrmCode(obr, obr_line) ==
    OrmCodeOf(obr, FieldCompFromEr7(obr_line, 4, 1), FieldCompFromEr7(obr_line, 4, 2))

\* 'CM'
TxtCM == <<"C", "M">>

\* a status mapping that compares the code as written
StatusOfAsWritten(s5, raw) ==
    IF s5.exc # "none" THEN "active"
    ELSE IF (IF NonEmpty(s5.value) THEN s5.value ELSE raw) = TxtCM THEN "completed"
    ELSE "active"

\* status from the structured ORC-5 s5, from the raw component raw when it
\* is empty
StatusOf(s5, raw) ==
    LET v == IF NonEmpty(s5.value) THEN s5.value ELSE raw
    IN  IF s5.exc # "none" THEN "active"
        ELSE IF NonEmpty(v) /\ Upper(v) = TxtCM THEN "completed"
        ELSE "active"

\* status from ORC-5
OrmStatus(orc, orc_line) ==
    StatusOf(ScalarField(orc, orc.f.orc_5), FieldCompFromEr7(orc_line, 5, 1))

\* the ServiceRequest of _build_service_request from its parts: the last
\* assignment to sr.id is outside any try
ServiceRequestOf(ids, code_cc, status, patient) ==
    LET id1 == IF ids.sr_id # None /\ IdAccepted(ids.sr_id) THEN ids.sr_id ELSE None
        id2 == TxtSr \o FmtStr(patient.id)
        sr == [resourceType |-> "ServiceRequest", id |-> id1, intent |-> "order",
               status |-> status, code |-> code_cc, identifier |-> ids.identifiers,
               subject |-> TxtPatientRef \o OrUnknown(patient.id)]
    IN  IF id1 # None THEN Returned(sr)
        ELSE IF IdAccepted(id2) THEN Returned([sr EXCEPT !.id = id2])
        ELSE [exc |-> "Exception", value |-> sr]

\* ORMO01Transformer._build_service_request
OrmBuildServiceRequest(orc, obr, patient, orc_line, obr_line) ==
    ServiceRequestOf(OrmIdentifiers(orc, orc_line), OrmCode(obr, obr_line),
                     OrmStatus(orc, orc_line), patient)

\* the return value of transform: an exception of _find_first or of
\* _build_service_request leaves transform
OrmRecords(exc, patient, sr) ==
    IF exc THEN [exc |-> "Exception", value |-> <<>>]
    ELSE IF sr.exc # "none" THEN [exc |-> "Exception", value |-> <<>>]
    ELSE Returned(<<patient, sr.value>>)

\* transform once the segments are found
OrmWith(msg, pid_seg, orc_seg, obr_seg, patient) ==
    OrmRecords(pid_seg.exc # "none" \/ orc_seg.exc # "none" \/ obr_seg.exc # "none",
               patient,
               OrmBuildServiceRequest(orc_seg.value, obr_seg.value, patient,
                                      OrmFirstSegmentLine(msg, TxtORC),
                                      OrmFirstSegmentLine(msg, TxtOBR)))

\* the Patient of transform for the PID segment found
OrmPatient(msg, pid_seg) ==
    OrmBuildPatient(pid_seg.value, OrmFirstSegmentLine(msg, TxtPID))

\* ORMO01Transformer.transform
TransformOrm(msg) ==
    OrmWith(msg, OrmFindFirst(msg, "PID"), OrmFindFirst(msg, "ORC"),
            OrmFindFirst(msg, "OBR"), OrmPatient(msg, OrmFindFirst(msg, "PID")))

\* --------------------------------------------------------------------------
\* oru_r01.py: Observation
\* --------------------------------------------------------------------------

\* the Observations gathered so far and whether the walk raised
Gathered(segs, exc) == [segs |-> segs, exc |-> exc]

\* getattr(x, "children", []) or [] : the nodes, or an exception
ChildrenOrEmpty(x) ==
    IF x.children.kind = "raises" THEN [exc |-> "Exception", value |-> <<>>]
    ELSE IF x.children.kind = "list" THEN Returned(x.children.nodes)
    ELSE Returned(<<>>)

\* the nodes of a list that are non-empty OBX segments
RECURSIVE ObxAmong(_)
ObxAmong(nodes) ==
    IF nodes = <<>> THEN <<>>
    ELSE (IF Head(nodes).name = "OBX" /\ IsTruthyContainer(Head(nodes))
          THEN <<Head(nodes)>> ELSE <<>>) \o ObxAmong(Tail(nodes))

\* the inner loops of the walk over one child ch: its children gg, and the
\* children of each gg; an exception stops the walk of ch and keeps what was
\* appended before it
RECURSIVE ObxUnder(_)
ObxUnder(ggs) ==
    IF ggs = <<>> THEN Gathered(<<>>, FALSE)
    ELSE LET gg == Head(ggs)
             own == IF gg.name = "OBX" /\ IsTruthyContainer(gg) THEN <<gg>> ELSE <<>>
             leaves == ChildrenOrEmpty(gg)
             rest == ObxUnder(Tail(ggs))
         IN  IF leaves.exc # "none" THEN Gathered(own, TRUE)
             ELSE Gathered(own \o ObxAmong(leaves.value) \o rest.segs, rest.exc)

\* the walk of transform over the children of the message, three levels deep
RECURSIVE ObxWalk(_)
ObxWalk(children) ==
    IF children = <<>> THEN <<>>
    ELSE LET ch == Head(children)
             own == IF ch.name = "OBX" /\ IsTruthyContainer(ch) THEN <<ch>> ELSE <<>>
             ggs == ChildrenOrEmpty(ch)
             below == IF ggs.exc # "none" THEN <<>> ELSE ObxUnder(ggs.value).segs
         IN  own \o below \o ObxWalk(Tail(children))

\* msg.PATIENT_RESULT.ORDER_OBSERVATION.OBX, for groups that are single nodes
ObxNested(msg) ==
    LET pr == GetAttrOrNone(msg, "PATIENT_RESULT")
        oo == GetAttrOrNone(pr.value, "ORDER_OBSERVATION")
        cand == GetAttrOrNone(oo.value, "OBX")
    IN  IF pr.exc # "none" \/ ~IsTruthyContainer(pr.value) THEN <<>>
        ELSE IF oo.exc # "none" \/ ~IsTruthyContainer(oo.value) THEN <<>>
        ELSE IF cand.exc # "none" \/ ~IsTruthyContainer(cand.value) THEN <<>>
        ELSE <<cand.value>>

\* obx_segs of transform
ObxSegs(msg) ==
    LET top == ChildrenOrEmpty(msg)
        walked == IF top.exc # "none" THEN <<>> ELSE ObxWalk(top.value)
        single == GetAttrOrNone(msg, "OBX")
    IN  IF walked # <<>> THEN walked
        ELSE IF single.exc = "none" /\ IsTruthyContainer(single.value)
             THEN <<single.value>>
        ELSE ObxNested(msg)

\* obx_lines of transform: the lines of _er7(msg) that start with 'OBX|'
RECURSIVE LinesStartingWith(_, _)
LinesStartingWith(lines, prefix) ==
    IF lines = <<>> THEN <<>>
    ELSE (IF StartsWith(Head(lines), prefix) THEN <<Head(lines)>> ELSE <<>>)
         \o LinesStartingWith(Tail(lines), prefix)

ObxLines(msg) ==
    LET s_all == Er7OfMessage(msg)
    IN  IF s_all = <<>> THEN <<>>
        ELSE LinesStartingWith(Split(ReplaceChar(ReplaceCRLF(s_all), CR, LF), LF),
                               TxtOBX \o <<"|">>)

\* the identifier of one round: the raw component raw first, the structured
\* field leaf when the line has none
ObrIdentifierOf(obr, raw, leaf) ==
    IF ~NonEmpty(raw) /\ obr.kind # "None" /\ leaf.kind = "raises"
    THEN [exc |-> "Exception", value |-> <<>>]
    ELSE IF ~NonEmpty(raw) /\ obr.kind # "None" /\ leaf.kind \in {"text", "er7raises"}
    THEN (IF NonEmpty(LeafText_er7(leaf)) THEN Returned(<<LeafText_er7(leaf)>>)
          ELSE Returned(<<>>))
    ELSE IF NonEmpty(raw) THEN Returned(<<raw>>)
    ELSE Returned(<<>>)

\* one round of the identifier loop of _build_observation, for obr_2 or obr_3
ObrIdentifier(obr, obr_line, field_idx, leaf) ==
    ObrIdentifierOf(obr, FieldCompFromEr7(obr_line, field_idx, 1), leaf)

\* the identifiers kept when a round raises: those appended before it
IdentifiersOf(i2, i3) ==
    IF i2.exc # "none" THEN <<>>
    ELSE IF i3.exc # "none" THEN i2.value
    ELSE i2.value \o i3.value

\* identifiers from OBR-2/OBR-3
OruIdentifiers(obr, obr_line) ==
    IdentifiersOf(ObrIdentifier(obr, obr_line, 2, obr.f.obr_2),
                  ObrIdentifier(obr, obr_line, 3, obr.f.obr_3))

\* code_val and text_val from the raw components of OBX-3, from the
\* structured field when the line has neither
CodePartsOf(obx, raw_code, raw_text) ==
    LET useSeg == ~(NonEmpty(raw_code) \/ NonEmpty(raw_text)) /\ obx.kind # "None"
        r == obx.f.obx_3
    IN  IF ~useSeg \/ r.kind = "none" THEN [code |-> raw_code, text |-> raw_text]
        ELSE IF r.kind = "raises" THEN [code |-> raw_code, text |-> raw_text]
        ELSE IF r.c.identifier.kind = "raises" \/ r.c.text.kind = "raises"
             THEN [code |-> raw_code, text |-> raw_text]
        ELSE [code |-> CodedPart(r.c.identifier), text |-> CodedPart(r.c.text)]

\* code_val and text_val from OBX-3
OruCodeParts(obx, obx_line) ==
    CodePartsOf(obx, FieldCompFromEr7(obx_line, 3, 1), FieldCompFromEr7(obx_line, 3, 2))

\* 'Unspecified Observation'
TxtUnspecified ==
    <<"U", "n", "s", "p", "e", "c", "i", "f", "i", "e", "d", " ",
      "O", "b", "s", "e", "r", "v", "a", "t", "i", "o", "n">>

\* the CodeableConcept of the Observation; Coding(code=...) is outside any
\* try, so a code it rejects raises
ConceptOf(cp) ==
    IF ~(NonEmpty(cp.code) \/ NonEmpty(cp.text))
    THEN Returned([has |-> TRUE, code |-> None, text |-> TxtUnspecified])
    ELSE IF NonEmpty(cp.code) /\ ~CodeAccepted(cp.code)
         THEN [exc |-> "Exception", value |-> NoConcept]
    ELSE Returned([has |-> TRUE,
                   code |-> IF NonEmpty(cp.code) THEN cp.code ELSE None,
                   text |-> cp.text])

\* the CodeableConcept of the Observation from OBX-3
OruCode(obx, obx_line) == ConceptOf(OruCodeParts(obx, obx_line))

\* strptime(t, "%H%M%S") accepts t, six digits
ValidHms(t) ==
    /\ ToInt(SubSeq(t, 1, 2)) <= 23
    /\ ToInt(SubSeq(t, 3, 4)) <= 59
    /\ ToInt(SubSeq(t, 5, 6)) <= 61

\* midnight
TxtMidnight == <<"0", "0", "0", "0", "0", "0">>

\* the effectiveDateTime for the text dt: [date, time] in UTC, None when
\* there is none
EffectiveOf(dt) ==
    IF ~NonEmpty(dt) THEN None
    ELSE IF ~(Len(dt) >= 8 /\ IsDigitStr(Prefix(dt, 8))) THEN None
    ELSE IF Len(dt) >= 14 /\ IsDigitStr(Prefix(dt, 14))
         THEN IF ValidYmd(Prefix(dt, 8)) /\ ValidHms(SubSeq(dt, 9, 14))
              THEN IsoDate(Prefix(dt, 8)) \o <<"T">> \o SubSeq(dt, 9, 14)
              ELSE None
    ELSE IF ValidYmd(Prefix(dt, 8))
         THEN IsoDate(Prefix(dt, 8)) \o <<"T">> \o TxtMidnight
    ELSE None

\* effectiveDateTime from OBR-7
OruEffective(obr_line) == EffectiveOf(FieldCompFromEr7(obr_line, 7, 1))

\* Decimal(t) accepts t: an optional sign, digits with at most one point and
\* at least one digit (texts with an exponent or a special value are not
\* among the values of the messages)
IsDecimalText(t) ==
    LET body == IF t # <<>> /\ t[1] \in {"+", "-"} THEN Tail(t) ELSE t
        points == {i \in 1..Len(body) : body[i] = "."}
    IN  /\ body # <<>>
        /\ Cardinality(points) <= 1
        /\ \A i \in 1..Len(body) : body[i] = "." \/ IsDigitChar(body[i])
        /\ \E i \in 1..Len(body) : IsDigitChar(body[i])

\* a text of digits without its leading zeros, '0' when nothing is left
RECURSIVE DropZeros(_)
DropZeros(d) ==
    IF d = <<>> THEN <<"0">>
    ELSE IF Head(d) = "0" /\ Len(d) > 1 THEN DropZeros(Tail(d))
    ELSE d

\* str(Decimal(t)) for a text that Decimal accepts
DecimalStr(t) ==
    LET neg == t[1] = "-"
        body == IF t[1] \in {"+", "-"} THEN Tail(t) ELSE t
        pt == IndexOf(body, ".", 1)
        int == IF pt = 0 THEN body ELSE SubSeq(body, 1, pt - 1)
        frac == IF pt = 0 THEN <<>> ELSE SubSeq(body, pt + 1, Len(body))
    IN  (IF neg THEN <<"-">> ELSE <<>>) \o DropZeros(int)
        \o (IF frac = <<>> THEN <<>> ELSE <<".">> \o frac)

\* no value[x]
NoValue == [kind |-> "none", value |-> None, unit |-> None]

\* value[x] from the raw OBX-5 v5raw and the raw unit u6raw, from the
\* structured fields when the line has none
ValueOf(obx, v5raw, u6raw) ==
    LET seg5 == v5raw = None /\ obx.kind # "None"
        l5 == obx.f.obx_5
        v5 == IF seg5 /\ l5.kind \in {"text", "er7raises"} THEN LeafText_er7(l5)
              ELSE v5raw
        seg6 == ~NonEmpty(u6raw) /\ obx.kind # "None"
        r6 == obx.f.obx_6
        u6 == IF seg6 /\ r6.kind = "rep"
              THEN OrText(CodedPart(r6.c.text), CodedPart(r6.c.identifier))
              ELSE u6raw
        v5s == IF v5 = None THEN <<>> ELSE Strip(v5)
    IN  IF seg5 /\ l5.kind = "raises" THEN NoValue
        ELSE IF seg6 /\ r6.kind = "raises" THEN NoValue
        ELSE IF seg6 /\ r6.kind = "rep"
                /\ (r6.c.text.kind = "raises"
                    \/ (~NonEmpty(CodedPart(r6.c.text)) /\ r6.c.identifier.kind = "raises"))
             THEN NoValue
        ELSE IF v5 = None THEN NoValue
        ELSE IF IsDecimalText(v5s)
             THEN [kind |-> "quantity", value |-> DecimalStr(v5s),
                   unit |-> IF NonEmpty(u6) THEN u6 ELSE None]
        ELSE IF v5s # <<>> THEN [kind |-> "string", value |-> v5s, unit |-> None]
        ELSE NoValue

\* value[x] from OBX-5 and the unit from OBX-6
OruValue(obx, obx_line) ==
    ValueOf(obx, FieldCompFromEr7(obx_line, 5, 1),
            OrText(FieldCompFromEr7(obx_line, 6, 2), FieldCompFromEr7(obx_line, 6, 1)))

\* an id made of the patient id alone
ObservationIdOfPatient(pid, ordinal) == TxtObs \o OrUnknown(pid)

\* f"obs-{pid}-{ordinal}", pid being (patient.id or 'unknown')
ObservationId(pid, ordinal) ==
    TxtObs \o OrUnknown(pid) \o <<"-">> \o NatStr(ordinal)

\* the Observation of _build_observation from its parts: a rejected id is
\* swallowed and leaves the Observation without id
ObservationOf(code_cc, value, effective, identifiers, patient, ordinal) ==
    LET id == ObservationId(patient.id, ordinal)
        obs == [resourceType |-> "Observation",
                id |-> IF IdAccepted(id) THEN id ELSE None,
                status |-> "final",
                code |-> code_cc.value,
                subject |-> TxtPatientRef \o OrUnknown(patient.id),
                effective |-> effective,
                identifier |-> identifiers,
                value |-> value]
    IN  IF code_cc.exc # "none" THEN [exc |-> "Exception", value |-> obs]
        ELSE Returned(obs)

\* ORUR01Transformer._build_observation
OruBuildObservation(obr, obx, patient, obr_line, obx_line, ordinal) ==
    ObservationOf(OruCode(obx, obx_line), OruValue(obx, obx_line),
                  OruEffective(obr_line), OruIdentifiers(obr, obr_line),
                  patient, ordinal)

\* locals whose OBR line is the last one of the message
FrameOfLastObr(msg, pid_seg, obr_seg) ==
    [exc |-> IF pid_seg.exc # "none" \/ obr_seg.exc # "none"
             THEN "Exception" ELSE "none",
     obr_seg |-> obr_seg.value,
     obx_lines |-> ObxLines(msg),
     obr_line |-> IF LinesStartingWith(Split(ReplaceChar(ReplaceCRLF(Er7ForLines(msg)), CR, LF), LF),
                                       TxtOBR \o <<"|">>) = <<>>
                  THEN None
                  ELSE LinesStartingWith(Split(ReplaceChar(ReplaceCRLF(Er7ForLines(msg)), CR, LF), LF),
                                         TxtOBR \o <<"|">>)[
                           Len(LinesStartingWith(Split(ReplaceChar(ReplaceCRLF(Er7ForLines(msg)), CR, LF), LF),
                                                 TxtOBR \o <<"|">>))],
     patient |-> OruBuildPatient(pid_seg.value, OruFirstSegmentLine(msg, TxtPID)),
     obx_segs |-> ObxSegs(msg)]

\* the locals of transform before its loop, for the PID and OBR segments
\* found
FrameOf(msg, pid_seg, obr_seg) ==
    [exc |-> IF pid_seg.exc # "none" \/ obr_seg.exc # "none"
             THEN "Exception" ELSE "none",
     obr_seg |-> obr_seg.value,
     obx_lines |-> ObxLines(msg),
     obr_line |-> OruFirstSegmentLine(msg, TxtOBR),
     patient |-> OruBuildPatient(pid_seg.value, OruFirstSegmentLine(msg, TxtPID)),
     obx_segs |-> ObxSegs(msg)]

\* what transform computes before its loop over the OBX lines
OruFrame(msg) == FrameOf(msg, OruFindFirst(msg, "PID"), OruFindFirst(msg, "OBR"))

\* one round of the loop of transform: the Observation for obx_lines[idx]
\* (idx counts from 1 here, so that it is also the ordinal)
OruRound(fr, idx) ==
    OruBuildObservation(fr.obr_seg,
                        IF idx <= Len(fr.obx_segs) THEN fr.obx_segs[idx] ELSE NoNode,
                        fr.patient, fr.obr_line, fr.obx_lines[idx], idx)

\* the loop of transform from round idx on, observations being those built
\* so far
RECURSIVE OruLoop(_, _, _)
OruLoop(fr, idx, observations) ==
    IF idx > Len(fr.obx_lines) THEN Returned(<<fr.patient>> \o observations)
    ELSE LET obs == OruRound(fr, idx)
         IN  IF obs.exc # "none" THEN [exc |-> "Exception", value |-> <<>>]
             ELSE OruLoop(fr, idx + 1, Append(observations, obs.value))

\* the return value of transform for the locals fr
OruRecords(fr) ==
    IF fr.exc # "none" THEN [exc |-> "Exception", value |-> <<>>]
    ELSE IF fr.obx_lines = <<>> THEN Returned(<<fr.patient>>)
    ELSE OruLoop(fr, 1, <<>>)

\* ORUR01Transformer.transform
TransformOru(msg) == OruRecords(OruFrame(msg))

\* cls().transform(msg) for the transformers without a loop
TransformAtOnce(cls, msg) ==
    CASE cls = "ADTA01Transformer" -> TransformA01(msg)
      [] cls = "ADTA03Transformer" -> TransformA03(msg)
      [] cls = "ADTA08Transformer" -> TransformA08(msg)
      [] cls = "ORMO01Transformer" -> TransformOrm(msg)

\* cls().transform(msg)
Transform(cls, msg) ==
    IF cls = "ORUR01Transformer" THEN TransformOru(msg) ELSE TransformAtOnce(cls, msg)

\* --------------------------------------------------------------------------
\* Messages
\* --------------------------------------------------------------------------

\* a message: the node at the root of its tree, its header and its rendering
Msg(msh, er7, attr, children) ==
    [name |-> "", kind |-> "seg", attr |-> attr, children |-> children,
     f |-> NoFields, msh |-> msh, er7 |-> er7]

Header(acc, shape, text) == [acc |-> acc, shape |-> shape, text |-> text]

\* the MSH-9 texts of the messages: the supported codes, an unregistered
\* code, a code without '^', a code in white space, extended codes, a code
\* in lower case and the empty text
HeaderTexts ==
    SupportedEvents \cup
    {EVT_ADT_A04,
     <<"O", "R", "M">>,
     <<" ", " ", "A", "D", "T", "^", "A", "0", "1", " ", CR>>,
     <<"A", "D", "T", "^", "A", "0", "1", "^", "A", "D", "T", "_", "A", "0", "1">>,
     <<"O", "R", "U", "^", "R", "0", "1", "^", "O", "R", "U", "_", "R", "0", "1">>,
     <<"o", "r", "u", "^", "r", "0", "1">>,
     <<>>}

\* the headers: every shape of msh_9 that carries a text with every text,
\* every shape that carries none, and the accessors that fail
Headers ==
    {Header("ok", shape, text) :
        shape \in {"er7", "er7bytes", "value", "str"}, text \in HeaderTexts}
    \cup {Header("ok", shape, <<>>) :
            shape \in {"er7none", "er7raises", "valueraises", "strraises", "none"}}
    \cup {Header(acc, "none", <<>>) : acc \in {"noMSH", "noMSH9", "raises"}}

\* a message of which only the header matters
HeaderOnly(h) == Msg(h, Er7("text", <<>>), {}, NoChildren)

HeaderMessages == {HeaderOnly(h) : h \in Headers}

\* --------------------------------------------------------------------------
\* Messages with a body
\* --------------------------------------------------------------------------

\* What a message is made from: the texts of its PID fields, the codes of
\* its OBX lines (one line per code), the OBX-5 value, the number of OBX
\* nodes in its tree, the shape of the tree, the line separator of the
\* rendering, how to_er7 behaves, and the trigger event of its header.
BaseVariant ==
    [id |-> <<"1", "2", "3", "4", "5">>, bd |-> <<"1", "9", "7", "0", "0", "1", "0", "1">>, sex |-> <<"M">>,
     codes |-> <<<<"G", "L", "U">>>>, val |-> <<"5", ".", "4">>, treeObx |-> 1,
     tree |-> "flat", sep |-> <<CR>>, er7 |-> "text", event |-> EVT_ORU_R01]

\* three OBX lines
ThreeObx ==
    [BaseVariant EXCEPT !.codes = <<<<"G", "L", "U">>, <<"N", "A">>, <<"K">>>>,
                        !.treeObx = 3]

\* the variants: the base message and messages that differ from it in one
\* respect (two where noted)
Variants ==
    {BaseVariant, ThreeObx}
    \cup {[BaseVariant EXCEPT !.id = x] :
            x \in {<<>>, <<"B", "A", "D", "_", "I", "D">>, [i \in 1..60 |-> "A"], [i \in 1..63 |-> "A"]}}
    \cup {[ThreeObx EXCEPT !.id = [i \in 1..60 |-> "A"]]}
    \cup {[BaseVariant EXCEPT !.bd = x] : x \in {<<>>, <<"1", "9", "7", "0", "1", "3", "4", "5">>, <<"1", "9", "7", "0", "0", "1">>}}
    \cup {[BaseVariant EXCEPT !.sex = x] : x \in {<<>>, <<"F">>, <<"O">>, <<"x">>}}
    \cup {[BaseVariant EXCEPT !.codes = x, !.treeObx = Len(x)] :
            x \in {<<>>, <<<<>>>>, <<<<"G", "L", " ", " ", "U">>>>,
                   <<<<"G", "L", "U">>, <<"N", " ", " ", "A">>, <<"K">>>>}}
    \cup {[BaseVariant EXCEPT !.val = x] : x \in {<<>>, <<"h", "i", "g", "h">>, <<"+", "0", "0", "7", ".", "5", "0">>}}
    \cup {[BaseVariant EXCEPT !.treeObx = x] : x \in {0, 3}}
    \cup {[ThreeObx EXCEPT !.treeObx = 1]}
    \cup {[BaseVariant EXCEPT !.tree = x] :
            x \in {"none", "attrs", "nested", "pidRaises", "pv1Raises", "childrenNone",
                   "childrenRaise", "list0", "fieldRaises", "er7Raises"}}
    \cup {[ThreeObx EXCEPT !.tree = x] : x \in {"none", "nested"}}
    \cup {[ThreeObx EXCEPT !.sep = x] : x \in {<<LF>>, <<CR, LF>>}}
    \cup {[BaseVariant EXCEPT !.er7 = x] : x \in {"raises", "nomethod"}}
    \cup {[ThreeObx EXCEPT !.er7 = "raises"]}
    \cup {[BaseVariant EXCEPT !.event = x] : x \in SupportedEvents \cup {EVT_ADT_A04}}

\* the rendering of the message of variant v: MSH, PID, PV1, ORC, OBR and
\* the OBX lines, joined by the separator
RawText(v) ==
    LET bar == <<"|">>
        ObxLine(k) ==
            TxtOBX \o bar \o NatStr(k) \o <<"|", "N", "M", "|">> \o v.codes[k]
            \o <<"^", "G", "l", "u", "c", "o", "s", "e", "|", "|">> \o v.val \o <<"|", "m", "g", "/", "d", "L">>
        ObxFrom[k \in 1..(Len(v.codes) + 1)] ==
            IF k > Len(v.codes) THEN <<>> ELSE v.sep \o ObxLine(k) \o ObxFrom[k + 1]
    IN  <<"M", "S", "H", "|", "^", "~", "\\", "&", "|", "A", "|", "B", "|", "C", "|", "D", "|", "2", "0", "2", "0", "0", "1", "0", "1", "|", "|">> \o v.event \o <<"|", "1", "|", "P", "|", "2", ".", "5">>
        \o v.sep \o TxtPID \o <<"|", "1", "|", "|">> \o v.id \o <<"^", "^", "^", "H", "^", "M", "R", "|", "|", "D", "o", "e", "^", "J", "o", "h", "n", "|", "|">>
        \o v.bd \o bar \o v.sex
        \o v.sep \o <<"P", "V", "1", "|", "1", "|", "I">>
        \o v.sep \o TxtORC \o <<"|", "N", "W", "|", "P", "1", "|", "F", "1", "|", "|", "C", "M">>
        \o v.sep \o TxtOBR \o <<"|", "1", "|", "P", "1", "|", "F", "1", "|", "C", "B", "C", "^", "B", "l", "o", "o", "d", " ", "c", "o", "u", "n", "t", "|", "|", "|", "2", "0", "2", "0", "0", "1", "0", "2", "0", "3", "0", "4", "0", "5">>
        \o ObxFrom[1]

\* an element with the text t, None when t is empty
TextOrNone(t) == IF t = <<>> THEN LeafNone ELSE LeafText(t)

\* the segments of the tree of the message of variant v
TreeSegments(v) ==
    LET pid == Seg("PID",
                   [NoFields EXCEPT
                       !.pid_3 = IF v.tree = "fieldRaises" THEN RepRaises
                                 ELSE IF v.id = <<>> THEN RepNone
                                 ELSE Rep([cx_1 |-> IF v.tree = "er7Raises"
                                                    THEN LeafEr7Raises
                                                    ELSE LeafText(v.id)]),
                       !.pid_5 = Rep([family_name |-> LeafText(<<"D", "o", "e">>),
                                      given_name |-> LeafText(<<"J", "o", "h", "n">>)]),
                       !.pid_7 = TextOrNone(v.bd),
                       !.pid_8 = TextOrNone(v.sex)])
        pv1 == Seg("PV1",
                   [NoFields EXCEPT
                       !.pv1_2 = LeafText(<<"I">>),
                       !.pv1_19 = LeafText(<<"V", "1">>),
                       !.pv1_44 = LeafText(<<"2", "0", "2", "0", "0", "1", "0", "1">>),
                       !.pv1_45 = LeafText(<<"2", "0", "2", "0", "0", "2", "3", "0">>)])
        orc == Seg("ORC",
                   [NoFields EXCEPT
                       !.orc_2 = LeafText(<<"P", "1">>),
                       !.orc_3 = LeafText(<<"F", "1">>),
                       !.orc_5 = LeafText(<<"C", "M">>)])
        obr == Seg("OBR",
                   [NoFields EXCEPT
                       !.obr_2 = LeafText(<<"P", "1">>),
                       !.obr_3 = LeafText(<<"F", "1">>),
                       !.obr_4 = Rep([identifier |-> LeafText(<<"C", "B", "C">>),
                                      text |-> LeafText(<<"B", "l", "o", "o", "d", " ", "c", "o", "u", "n", "t">>)])])
        Obx(k) == Seg("OBX",
                      [NoFields EXCEPT
                          !.obx_3 = Rep([identifier |->
                                            IF k <= Len(v.codes) THEN TextOrNone(v.codes[k])
                                            ELSE LeafText(<<"E", "X", "T", "R", "A">>),
                                         text |-> LeafText(<<"G", "l", "u", "c", "o", "s", "e">>)]),
                          !.obx_5 = TextOrNone(v.val),
                          !.obx_6 = Rep([identifier |-> LeafText(<<"m", "g", "/", "d", "L">>),
                                         text |-> LeafNone])])
    IN  [pid |-> pid, pv1 |-> pv1, orc |-> orc, obr |-> obr,
         obx |-> [k \in 1..v.treeObx |-> Obx(k)]]

\* the message of variant v, t being the segments of its tree
MessageOf(v, t) ==
    LET flat == <<t.pid, t.pv1, t.orc, t.obr>> \o t.obx
        order == Node("ORDER_OBSERVATION", "seg",
                      {<<"ORC", AttrNode(t.orc)>>, <<"OBR", AttrNode(t.obr)>>}
                      \cup (IF v.treeObx > 0 THEN {<<"OBX", AttrNode(t.obx[1])>>} ELSE {}),
                      Children("list", <<t.orc, t.obr>> \o t.obx), NoFields)
        result == Node("PATIENT_RESULT", "seg", {<<"ORDER_OBSERVATION", AttrNode(order)>>},
                       Children("list", <<order>>), NoFields)
        named == {<<"PID", AttrNode(t.pid)>>, <<"PV1", AttrNode(t.pv1)>>,
                  <<"ORC", AttrNode(t.orc)>>, <<"OBR", AttrNode(t.obr)>>}
        attr ==
            CASE v.tree = "none" -> {}
              [] v.tree = "nested" ->
                    {<<"PID", AttrNode(t.pid)>>, <<"PV1", AttrNode(t.pv1)>>,
                     <<"PATIENT_RESULT", AttrNode(result)>>}
              [] v.tree = "pidRaises" ->
                    {<<"PID", AttrRaises>>, <<"PV1", AttrNode(t.pv1)>>,
                     <<"ORC", AttrNode(t.orc)>>, <<"OBR", AttrNode(t.obr)>>}
              [] v.tree = "pv1Raises" ->
                    {<<"PID", AttrNode(t.pid)>>, <<"PV1", AttrRaises>>,
                     <<"ORC", AttrNode(t.orc)>>, <<"OBR", AttrNode(t.obr)>>}
              [] v.tree \in {"childrenNone", "childrenRaise"} ->
                    {<<"PID", AttrNode(t.pid)>>, <<"PV1", AttrNode(t.pv1)>>,
                     <<"ORC", AttrNode(t.orc)>>}
              [] v.tree = "list0" ->
                    {<<"PID", AttrNode(Node("", "list0", {}, NoChildren, NoFields))>>,
                     <<"PV1", AttrNode(t.pv1)>>}
              [] OTHER -> named
        children ==
            CASE v.tree \in {"none", "attrs", "list0"} -> NoChildren
              [] v.tree = "nested" -> Children("list", <<t.pid, t.pv1, result>>)
              [] v.tree = "childrenNone" -> Children("none", <<>>)
              [] v.tree = "childrenRaise" -> Children("raises", <<>>)
              [] OTHER -> Children("list", flat)
    IN  Msg(Header("ok", "er7", v.event), Er7(v.er7, RawText(v)), attr, children)

\* the message of variant v
BodyMessage(v) == MessageOf(v, TreeSegments(v))

BodyMessages == {BodyMessage(v) : v \in Variants}

\* --------------------------------------------------------------------------
\* State
\* --------------------------------------------------------------------------

VARIABLES
    REGISTRY,       \* registry.py: _REGISTRY
    DISCOVERED,     \* v2_to_fhir/__init__.py: _DISCOVERED
    sys_modules,    \* the transformer modules whose body has run
    importCalls,    \* per module, the calls of importlib.import_module
    listing,        \* what _iter_modules yields in this process
    pc,             \* where the program is
    loadIdx,        \* the position of load_all in listing
    loadCalls,      \* the calls of load_all so far
    err,            \* the exception that ended the program, "none" if none
    regCall,        \* the last register(event)(cls) and its outcome
    lookup,         \* the last registry read of the orchestrator
    conv            \* the conversions: per conversion, its frame

vars ==
    <<REGISTRY, DISCOVERED, sys_modules, importCalls, listing, pc, loadIdx,
      loadCalls, err, regCall, lookup, conv>>

\* the calls of load_all that the program makes at most
MaxLoadAllCalls == 2

NoLookup == [op |-> "none", msg |-> HeaderOnly(Header("noMSH", "none", <<>>)),
             result |-> Returned(NoTransformer)]

NoRegCall == [event |-> <<>>, cls |-> NoTransformer, exc |-> "none",
              before |-> EmptyRegistry]

NoConv == <<>>

\* --------------------------------------------------------------------------
\* The program: import of the transform package, then the orchestrator
\* --------------------------------------------------------------------------

\* the process before `from .transform.registry import ...` of cli.py
Init ==
    /\ REGISTRY = EmptyRegistry
    /\ DISCOVERED = {}
    /\ sys_modules = {}
    /\ importCalls = [m \in Modules |-> 0]
    /\ listing \in ModuleListings
    /\ pc = "start"
    /\ loadIdx = 0
    /\ loadCalls = 0
    /\ err = "none"
    /\ regCall = NoRegCall
    /\ lookup = NoLookup
    /\ conv = NoConv

\* transform/__init__.py: `_load_v2()` when the package is first imported
ImportTransformPackage ==
    /\ pc = "start"
    /\ pc' = "loading"
    /\ loadIdx' = 1
    /\ loadCalls' = loadCalls + 1
    /\ UNCHANGED <<REGISTRY, DISCOVERED, sys_modules, importCalls, listing, err,
                   regCall, lookup, conv>>

\* one iteration of the loop of load_all: the module is skipped, or imported;
\* a module imported for the first time runs its body, which registers its
\* class
LoadAllStep ==
    /\ pc = "loading"
    /\ loadIdx <= Len(listing)
    /\ LET modname == listing[loadIdx]
           imports == LoadAllImports(modname, DISCOVERED)
           cls == ModuleClass(modname)
           runs == imports /\ modname \notin sys_modules /\ cls # NoTransformer
           exc == IF runs THEN RegisterError(REGISTRY, EventOf(cls), cls) ELSE "none"
       IN  /\ importCalls' = IF imports
                             THEN [importCalls EXCEPT ![modname] = @ + 1]
                             ELSE importCalls
           /\ REGISTRY' = IF runs THEN RegisterTable(REGISTRY, EventOf(cls), cls)
                          ELSE REGISTRY
           /\ regCall' = IF runs
                         THEN [event |-> EventOf(cls), cls |-> cls, exc |-> exc,
                               before |-> REGISTRY]
                         ELSE regCall
           /\ err' = exc
           /\ IF exc # "none"
              THEN /\ pc' = "failed"
                   /\ UNCHANGED <<DISCOVERED, sys_modules, loadIdx>>
              ELSE /\ pc' = pc
                   /\ loadIdx' = loadIdx + 1
                   /\ sys_modules' = IF imports THEN sys_modules \cup {modname}
                                     ELSE sys_modules
                   /\ DISCOVERED' = IF imports THEN DISCOVERED \cup {modname}
                                    ELSE DISCOVERED
    /\ UNCHANGED <<listing, loadCalls, lookup, conv>>

\* load_all returns
LoadAllReturn ==
    /\ pc = "loading"
    /\ loadIdx > Len(listing)
    /\ pc' = "ready"
    /\ loadIdx' = 0
    /\ UNCHANGED <<REGISTRY, DISCOVERED, sys_modules, importCalls, listing,
                   loadCalls, err, regCall, lookup, conv>>

\* another entry point calls load_all()
LoadAllAgain ==
    /\ pc = "ready"
    /\ loadCalls < MaxLoadAllCalls
    /\ pc' = "loading"
    /\ loadIdx' = 1
    /\ loadCalls' = loadCalls + 1
    /\ UNCHANGED <<REGISTRY, DISCOVERED, sys_modules, importCalls, listing, err,
                   regCall, lookup, conv>>

\* cli.py: get_transformer(msg)
GetTransformerCall ==
    /\ pc = "ready"
    /\ \E msg \in HeaderMessages :
          lookup' = [op |-> "get_transformer", msg |-> msg,
                     result |-> get_transformer(REGISTRY, msg)]
    /\ UNCHANGED <<REGISTRY, DISCOVERED, sys_modules, importCalls, listing, pc,
                   loadIdx, loadCalls, err, regCall, conv>>

\* cli.py: available_events()
AvailableEventsCall ==
    /\ pc = "ready"
    /\ lookup' = [op |-> "available_events", msg |-> NoLookup.msg,
                  result |-> Returned(available_events(REGISTRY))]
    /\ UNCHANGED <<REGISTRY, DISCOVERED, sys_modules, importCalls, listing, pc,
                   loadIdx, loadCalls, err, regCall, conv>>

Next ==
    \/ ImportTransformPackage
    \/ LoadAllStep
    \/ LoadAllReturn
    \/ LoadAllAgain
    \/ GetTransformerCall
    \/ AvailableEventsCall

Spec == Init /\ [][Next]_vars

\* --------------------------------------------------------------------------
\* register called freely, as the tests of the registry call it
\* --------------------------------------------------------------------------

\* the events of the register calls: two that transformer modules bind and
\* one that none binds
RegisterEvents == {EVENT_CODE, EVT_ORU_R01, EVT_ADT_A04}

InitRegister ==
    /\ REGISTRY = EmptyRegistry
    /\ DISCOVERED = {}
    /\ sys_modules = {}
    /\ importCalls = [m \in Modules |-> 0]
    /\ listing = <<>>
    /\ pc = "register"
    /\ loadIdx = 0
    /\ loadCalls = 0
    /\ err = "none"
    /\ regCall = NoRegCall
    /\ lookup = NoLookup
    /\ conv = NoConv

\* register(event)(cls)
RegisterCall ==
    /\ pc = "register"
    /\ \E event \in RegisterEvents, cls \in Candidates :
          /\ regCall' = [event |-> event, cls |-> cls,
                         exc |-> RegisterError(REGISTRY, event, cls),
                         before |-> REGISTRY]
          /\ REGISTRY' = RegisterTable(REGISTRY, event, cls)
    /\ UNCHANGED <<DISCOVERED, sys_modules, importCalls, listing, pc, loadIdx,
                   loadCalls, err, lookup, conv>>

NextRegister == RegisterCall

SpecRegister == InitRegister /\ [][NextRegister]_vars

\* --------------------------------------------------------------------------
\* Conversions: get_transformer, then transform, each on its own message
\* --------------------------------------------------------------------------

\* the frame of a conversion: its message, the transformer class, where it
\* is, the locals of ORUR01Transformer.transform (fr, idx, observations),
\* what the last call returned, what the call before returned, and the
\* number of transform calls
Frame(msg, cls, stage) ==
    [msg |-> msg, cls |-> cls, stage |-> stage, fr |-> <<>>, idx |-> 0,
     observations |-> <<>>, result |-> Returned(<<>>), first |-> Returned(<<>>),
     calls |-> 1]

\* the state of the process once the transform package is imported
AfterPopulation ==
    /\ REGISTRY = PopulatedRegistry
    /\ DISCOVERED = Modules \ {MOD_helper_internal}
    /\ sys_modules = Modules \ {MOD_helper_internal}
    /\ importCalls = [m \in Modules |-> IF m = MOD_helper_internal THEN 0 ELSE 1]
    /\ listing = <<MOD_adt_a01, MOD_adt_a03, MOD_adt_a08, MOD_orm_o01, MOD_oru_r01>>
    /\ pc = "ready"
    /\ loadIdx = 0
    /\ loadCalls = 1
    /\ err = "none"
    /\ regCall = NoRegCall
    /\ lookup = NoLookup

\* a list of Observations kept from one transform call to the next
LeftoverObservations(c) == conv[c].observations

\* `observations: List[Observation] = []` at the start of the loop
NewObservations(c) == <<>>

\* a counter of Observations shared by all the conversions of the process
SharedOrdinal(c) ==
    LET Built[d \in 0..Len(conv)] ==
            IF d = 0 THEN 0 ELSE Built[d - 1] + Len(conv[d].observations)
    IN  Built[Len(conv)] + 1

\* `ordinal=idx + 1`: the position of the OBX line in this call
Ordinal(c) == conv[c].idx

\* transform(msg) of a transformer other than ORUR01Transformer
TransformCall(c) ==
    /\ conv[c].stage = "call"
    /\ conv[c].cls # "ORUR01Transformer"
    /\ conv' = [conv EXCEPT ![c].result = TransformAtOnce(conv[c].cls, conv[c].msg),
                            ![c].stage = "returned"]
    /\ UNCHANGED <<REGISTRY, DISCOVERED, sys_modules, importCalls, listing, pc,
                   loadIdx, loadCalls, err, regCall, lookup>>

\* the frame of conversion c once the locals fr are computed: transform
\* raises, returns the Patient alone, or enters its loop
OruEnter(c, fr) ==
    conv' = IF fr.exc # "none"
            THEN [conv EXCEPT ![c].result = [exc |-> "Exception", value |-> <<>>],
                              ![c].stage = "returned"]
            ELSE IF fr.obx_lines = <<>>
            THEN [conv EXCEPT ![c].result = Returned(<<fr.patient>>),
                              ![c].stage = "returned"]
            ELSE [conv EXCEPT ![c].fr = fr, ![c].idx = 1,
                              ![c].observations = NewObservations(c),
                              ![c].stage = "loop"]

\* ORUR01Transformer.transform up to its loop
OruTransformBegin(c) ==
    /\ conv[c].stage = "call"
    /\ conv[c].cls = "ORUR01Transformer"
    /\ OruEnter(c, OruFrame(conv[c].msg))
    /\ UNCHANGED <<REGISTRY, DISCOVERED, sys_modules, importCalls, listing, pc,
                   loadIdx, loadCalls, err, regCall, lookup>>

\* the frame of conversion c after a round that built obs: an exception
\* leaves transform, an Observation is appended
OruAfterRound(c, obs) ==
    conv' = IF obs.exc # "none"
            THEN [conv EXCEPT ![c].result = [exc |-> "Exception", value |-> <<>>],
                              ![c].stage = "returned"]
            ELSE [conv EXCEPT ![c].observations = Append(@, obs.value),
                              ![c].idx = @ + 1]

\* one round of the loop of ORUR01Transformer.transform
OruTransformRound(c) ==
    /\ conv[c].stage = "loop"
    /\ conv[c].idx <= Len(conv[c].fr.obx_lines)
    /\ OruAfterRound(c, OruBuildObservation(
                            conv[c].fr.obr_seg,
                            IF conv[c].idx <= Len(conv[c].fr.obx_segs)
                            THEN conv[c].fr.obx_segs[conv[c].idx] ELSE NoNode,
                            conv[c].fr.patient, conv[c].fr.obr_line,
                            conv[c].fr.obx_lines[conv[c].idx], Ordinal(c)))
    /\ UNCHANGED <<REGISTRY, DISCOVERED, sys_modules, importCalls, listing, pc,
                   loadIdx, loadCalls, err, regCall, lookup>>

\* ORUR01Transformer.transform after its loop
OruTransformReturn(c) ==
    /\ conv[c].stage = "loop"
    /\ conv[c].idx > Len(conv[c].fr.obx_lines)
    /\ conv' = [conv EXCEPT
                   ![c].result = Returned(<<conv[c].fr.patient>> \o conv[c].observations),
                   ![c].stage = "returned"]
    /\ UNCHANGED <<REGISTRY, DISCOVERED, sys_modules, importCalls, listing, pc,
                   loadIdx, loadCalls, err, regCall, lookup>>

\* --------------------------------------------------------------------------
\* transform called repeatedly on one message
\* --------------------------------------------------------------------------

\* the transform calls made on the message
MaxTransformCalls == 2

InitTransform ==
    /\ AfterPopulation
    /\ \E msg \in BodyMessages, cls \in TransformerClasses :
          conv = <<Frame(msg, cls, "call")>>

\* the caller keeps the result and calls transform again on the same message
TransformAgain(c) ==
    /\ conv[c].stage = "returned"
    /\ conv[c].calls < MaxTransformCalls
    /\ conv' = [conv EXCEPT ![c].first = conv[c].result,
                            ![c].calls = @ + 1,
                            ![c].stage = "call"]
    /\ UNCHANGED <<REGISTRY, DISCOVERED, sys_modules, importCalls, listing, pc,
                   loadIdx, loadCalls, err, regCall, lookup>>

NextTransform ==
    \E c \in DOMAIN conv :
        \/ TransformCall(c)
        \/ OruTransformBegin(c)
        \/ OruTransformRound(c)
        \/ OruTransformReturn(c)
        \/ TransformAgain(c)

SpecTransform == InitTransform /\ [][NextTransform]_vars

\* --------------------------------------------------------------------------
\* Concurrent conversions after population
\* --------------------------------------------------------------------------

\* the conversions that run at the same time
NConv == 2

\* the messages of the concurrent conversions: two ORU^R01 messages of three
\* OBX lines for different patients, an ORM^O01 message and a message of an
\* unregistered event
ConvMessages ==
    {BodyMessage(ThreeObx),
     BodyMessage([ThreeObx EXCEPT !.id = <<"7">>]),
     BodyMessage([BaseVariant EXCEPT !.event = EVT_ORM_O01]),
     BodyMessage([BaseVariant EXCEPT !.event = EVT_ADT_A04])}

InitConc ==
    /\ AfterPopulation
    /\ conv \in [1..NConv -> {Frame(msg, NoTransformer, "lookup") : msg \in ConvMessages}]

\* get_transformer(msg) of a conversion: a new instance of the class found
ConvLookup(c) ==
    /\ conv[c].stage = "lookup"
    /\ LET t == get_transformer(REGISTRY, conv[c].msg)
       IN  conv' =
             IF t.exc # "none"
             THEN [conv EXCEPT ![c].result = [exc |-> "Exception", value |-> <<>>],
                               ![c].stage = "returned"]
             ELSE IF t.value = NoTransformer
             THEN [conv EXCEPT ![c].result = [exc |-> "NoTransformer", value |-> <<>>],
                               ![c].stage = "returned"]
             ELSE [conv EXCEPT ![c].cls = t.value, ![c].stage = "call"]
    /\ UNCHANGED <<REGISTRY, DISCOVERED, sys_modules, importCalls, listing, pc,
                   loadIdx, loadCalls, err, regCall, lookup>>

NextConc ==
    \/ AvailableEventsCall
    \/ \E c \in DOMAIN conv :
          \/ ConvLookup(c)
          \/ TransformCall(c)
          \/ OruTransformBegin(c)
          \/ OruTransformRound(c)
          \/ OruTransformReturn(c)

SpecConc == InitConc /\ [][NextConc]_vars

\* what a conversion of msg returns when it runs alone
Alone(msg) ==
    LET t == get_transformer(PopulatedRegistry, msg)
    IN  IF t.exc # "none" THEN [exc |-> "Exception", value |-> <<>>]
        ELSE IF t.value = NoTransformer THEN [exc |-> "NoTransformer", value |-> <<>>]
        ELSE Transform(t.value, msg)

\* --------------------------------------------------------------------------
\* Properties of the registry
\* --------------------------------------------------------------------------

\* the header is an element that renders exactly the text of event
CarriesExactly(msg, event) ==
    msg.msh.acc = "ok" /\ msg.msh.shape = "er7" /\ msg.msh.text = event

\* C2: for every supported trigger-event code, get_transformer on a message
\* whose MSH-9 renders exactly that code returns a transformer whose
\* applies(message) is true; on a message whose MSH-9 renders a code that is
\* not registered it returns None.
C2_LookupMatchesApplies ==
    lookup.op = "get_transformer" =>
        /\ \A event \in SupportedEvents :
              CarriesExactly(lookup.msg, event) =>
                 /\ lookup.result.exc = "none"
                 /\ lookup.result.value # NoTransformer
                 /\ Applies(lookup.result.value, lookup.msg) = Returned(TRUE)
        /\ CarriesExactly(lookup.msg, EVT_ADT_A04) =>
              lookup.result = Returned(NoTransformer)

C2_Witness ==
    /\ lookup.op = "get_transformer"
    /\ CarriesExactly(lookup.msg, EVT_ADT_A03)
    /\ lookup.result.value = "ADTA03Transformer"

\* the outcome of the last register call is an error that left the table as
\* it was
RegisterRefused ==
    /\ regCall.exc # "none"
    /\ REGISTRY = regCall.before

\* the outcome of the last register call is a new binding of its event to
\* its class, every other binding being as before
RegisterBound ==
    /\ regCall.exc = "none"
    /\ DOMAIN REGISTRY = DOMAIN regCall.before \cup {regCall.event}
    /\ REGISTRY[regCall.event] = regCall.cls
    /\ \A e \in DOMAIN regCall.before : REGISTRY[e] = regCall.before[e]

\* C3: register(event)(cls) raises and leaves the registry unchanged whenever
\* event is already bound, cls is not a class, or cls lacks a callable
\* applies or transform; in every other case it binds event to cls; and no
\* register call changes or removes a binding made before (each event stays
\* bound to the first class successfully registered for it).
C3_RegisterFirstWins ==
    /\ [](regCall.cls # NoTransformer =>
            IF \/ regCall.event \in DOMAIN regCall.before
               \/ regCall.cls = "duck"
               \/ regCall.cls \in {"_BadTransformerMissingApplies",
                                   "_BadTransformerMissingTransform"}
            THEN RegisterRefused
            ELSE RegisterBound)
    /\ [][\A e \in DOMAIN REGISTRY :
             e \in DOMAIN REGISTRY' /\ REGISTRY'[e] = REGISTRY[e]]_vars

C3_Witness ==
    /\ regCall.event = EVENT_CODE
    /\ regCall.cls = "_GoodTransformerB"
    /\ regCall.exc = "ValueError"
    /\ EVENT_CODE \in DOMAIN REGISTRY
    /\ REGISTRY[EVENT_CODE] = "_GoodTransformerA"

\* C4: get_transformer(msg) never raises: whenever MSH or MSH-9 is missing,
\* reading or rendering MSH-9 throws or yields None, or the code is not
\* registered, it returns None.
C4_GetTransformerNeverRaises ==
    lookup.op = "get_transformer" =>
        /\ lookup.result.exc = "none"
        /\ (\/ lookup.msg.msh.acc # "ok"
            \/ lookup.msg.msh.shape \in
                  {"er7none", "er7raises", "valueraises", "strraises", "none"}
            \/ LookupKey(lookup.msg.msh.text) \notin SupportedEvents)
           => lookup.result.value = NoTransformer

\* the first load_all has returned
Populated == loadCalls >= 1 /\ (pc # "loading" \/ loadCalls > 1)

C7_LoadAllIdempotent ==
    /\ \A m \in Modules : importCalls[m] <= 1
    /\ importCalls[MOD_helper_internal] = 0
    /\ MOD_helper_internal \notin DISCOVERED
    /\ err = "none"
    /\ pc # "failed"

C7_Witness ==
    /\ loadCalls = 2
    /\ pc = "ready"
    /\ MOD_helper_internal \in {listing[i] : i \in 1..Len(listing)}
    /\ \A m \in Modules \ {MOD_helper_internal} : importCalls[m] = 1

\* --------------------------------------------------------------------------
\* Properties of the transformers
\* --------------------------------------------------------------------------

\* C1: for every transformer and every message, a failure confined to one
\* source field or segment never propagates out of transform: transform
\* returns its record list, the Patient first.
C1_FailureContained ==
    \A c \in DOMAIN conv :
        conv[c].stage = "returned" =>
            /\ conv[c].result.exc = "none"
            /\ Len(conv[c].result.value) >= 1
            /\ conv[c].result.value[1].resourceType = "Patient"

\* C6: once population has finished, under any interleaving of concurrent
\* conversions and available_events calls the registry table stays what
\* population made it, and every conversion returns what it returns when it
\* runs alone.
C6_ConversionsIndependent ==
    /\ REGISTRY = PopulatedRegistry
    /\ lookup.op = "available_events" =>
          lookup.result.value = available_events(PopulatedRegistry)
    /\ \A c \in DOMAIN conv :
          conv[c].stage = "returned" => conv[c].result = Alone(conv[c].msg)

C6_Witness ==
    /\ Len(conv) >= 2
    /\ conv[1].stage = "returned"
    /\ conv[1].cls = "ORUR01Transformer"
    /\ Len(conv[1].result.value) = 4
    /\ conv[2].stage = "loop"
    /\ conv[2].idx = 2
    /\ conv[2].msg # conv[1].msg
    /\ lookup.op = "available_events"

\* the lines of the rendered message that start with 'OBX|'
RawObxCount(msg) ==
    IF msg.er7.kind # "text" THEN 0
    ELSE LET lines == Split(ReplaceChar(ReplaceCRLF(msg.er7.text), CR, LF), LF)
         IN  Cardinality({k \in 1..Len(lines) : StartsWith(lines[k], TxtOBX \o <<"|">>)})

\* C8: ORU^R01 transform returns the Patient followed by exactly one
\* Observation per line of the rendered message that starts with 'OBX|'
\* (zero lines give the Patient only), whatever the number of OBX nodes in
\* the tree.
C8_OneObservationPerObxLine ==
    \A c \in DOMAIN conv :
        (conv[c].stage = "returned" /\ conv[c].cls = "ORUR01Transformer") =>
            /\ conv[c].result.exc = "none"
            /\ Len(conv[c].result.value) = 1 + RawObxCount(conv[c].msg)
            /\ conv[c].result.value[1].resourceType = "Patient"
            /\ \A k \in 2..Len(conv[c].result.value) :
                  conv[c].result.value[k].resourceType = "Observation"

OruResults ==
    {conv[c].result.value : c \in {d \in DOMAIN conv :
        /\ conv[d].stage = "returned"
        /\ conv[d].cls = "ORUR01Transformer"
        /\ conv[d].result.exc = "none"}}

\* 'obs-{p}-{k}' for the k-th Observation of a result
ExpectedId(value, k) ==
    TxtObs \o (IF value[1].id = None THEN TxtUnknown ELSE value[1].id)
           \o <<"-">> \o NatStr(k)

AdtClasses == {"ADTA01Transformer", "ADTA03Transformer", "ADTA08Transformer"}

\* the resource types of the records, in order
ResourceTypes(records) == [i \in 1..Len(records) |-> records[i].resourceType]

\* C11: every returned transform call has returned a non-empty list whose
\* first record is a Patient, whatever the message lacks; for the ADT
\* transformers the list is exactly a Patient followed by an Encounter.
C11_PatientFirst ==
    \A c \in DOMAIN conv :
        conv[c].stage = "returned" =>
            /\ conv[c].result.exc = "none"
            /\ conv[c].result.value # <<>>
            /\ ResourceTypes(conv[c].result.value)[1] = "Patient"
            /\ conv[c].cls \in AdtClasses =>
                   ResourceTypes(conv[c].result.value) = <<"Patient", "Encounter">>

\* C11, for the calls that return a list
C11_PatientFirstWhenReturned ==
    \A c \in DOMAIN conv :
        (conv[c].stage = "returned" /\ conv[c].result.exc = "none") =>
            /\ conv[c].result.value # <<>>
            /\ ResourceTypes(conv[c].result.value)[1] = "Patient"
            /\ conv[c].cls \in AdtClasses =>
                   ResourceTypes(conv[c].result.value) = <<"Patient", "Encounter">>

\* --------------------------------------------------------------------------
\* Calls of single functions, as the unit tests make them
\* --------------------------------------------------------------------------

\* the frame of one call: the function, its arguments (those the function
\* does not take keep their default), where the call is and what it returned
CallFrame(fn, cls, msg, seg_name, er7_line, field_index, comp_index) ==
    [fn |-> fn, cls |-> cls, msg |-> msg, seg_name |-> seg_name,
     er7_line |-> er7_line, field_index |-> field_index,
     comp_index |-> comp_index, stage |-> "call", result |-> Returned(None)]

\* the call has returned r
ReturnFrom(r) ==
    /\ conv' = [conv EXCEPT ![1].stage = "returned", ![1].result = r]
    /\ UNCHANGED <<REGISTRY, DISCOVERED, sys_modules, importCalls, listing, pc,
                   loadIdx, loadCalls, err, regCall, lookup>>

\* MSH-9 texts beside HeaderTexts: ORU^R01 followed by more than one further
\* component, ORU^R01 run on into another code, and ORU^R01 in white space
AppliesTexts ==
    {<<"O", "R", "U", "^", "R", "0", "1", "^", "O", "R", "U", "_", "R", "0", "1", "^", "X">>,
     <<"O", "R", "U", "^", "R", "0", "1", "2">>,
     <<" ", "O", "R", "U", "^", "R", "0", "1", " ">>}

\* the messages of the applies calls
AppliesMessages ==
    HeaderMessages \cup {HeaderOnly(Header("ok", "er7", t)) : t \in AppliesTexts}

InitApplies ==
    \E cls \in TransformerClasses, msg \in AppliesMessages :
        conv = <<CallFrame("applies", cls, msg, <<>>, None, 0, 0)>>

\* cls().applies(msg)
AppliesCall ==
    /\ conv[1].stage = "call"
    /\ conv[1].fn = "applies"
    /\ ReturnFrom(Applies(conv[1].cls, conv[1].msg))

\* the er7_line arguments of the _field_comp_from_er7 calls: None, the empty
\* text, white space, a PID line, and an OBX line in white space with
\* components in white space, a blank component and an empty field
FieldCompLines ==
    {None, <<>>, <<" ", " ">>,
     <<"P", "I", "D", "|", "1", "|", "|", "1", "2", "3", "^", "^", "^", "H", "^", "M", "R">>,
     <<" ", "O", "B", "X", "|", " ", "G", "L", "U", " ", "^", " ", "^", "L", "N", "|", "|", " ", "5", ".", "4", " ", "|", "m", "g", " ">>}

\* the largest index of the _field_comp_from_er7 calls
MaxIndex == 4

FieldIndexes == (0 - 1)..MaxIndex

InitFieldComp ==
    \E line \in FieldCompLines, field_index \in FieldIndexes, comp_index \in FieldIndexes :
        conv = <<CallFrame("_field_comp_from_er7", NoTransformer, NoLookup.msg, <<>>,
                           line, field_index, comp_index)>>

\* _field_comp_from_er7(er7_line, field_index, comp_index)
FieldCompCall ==
    /\ conv[1].stage = "call"
    /\ conv[1].fn = "_field_comp_from_er7"
    /\ ReturnFrom(Returned(FieldCompFromEr7(conv[1].er7_line, conv[1].field_index,
                                            conv[1].comp_index)))

\* the modules that define _find_first and _first_segment_line, each named
\* by its transformer class
HelperModules == {"ORMO01Transformer", "ORUR01Transformer"}

\* a message whose only child is a group under which PID is an empty list
EmptyBelowGroup ==
    Msg(Header("ok", "er7", EVT_ORU_R01), Er7("text", <<>>), {},
        Children("list",
                 <<Node("PATIENT", "seg",
                        {<<"PID", AttrNode(Node("", "list0", {}, NoChildren, NoFields))>>},
                        Children("list", <<Seg("PV1", NoFields)>>), NoFields)>>))

\* the trees searched by the _find_first calls
FindTrees ==
    {BodyMessage([BaseVariant EXCEPT !.tree = x]) :
        x \in {"flat", "none", "attrs", "nested", "pidRaises", "pv1Raises",
               "childrenNone", "childrenRaise", "list0", "fieldRaises"}}
    \cup {EmptyBelowGroup}

FindNames == {"PID", "OBR", "OBX", "ZZZ"}

InitFindFirst ==
    \E cls \in HelperModules, msg \in FindTrees, seg_name \in FindNames :
        conv = <<CallFrame("_find_first", cls, msg, seg_name, None, 0, 0)>>

\* _find_first(msg_or_group, seg_name) of the module of conv[1].cls
FindFirstCall ==
    /\ conv[1].stage = "call"
    /\ conv[1].fn = "_find_first"
    /\ ReturnFrom(IF conv[1].cls = "ORUR01Transformer"
                  THEN OruFindFirst(conv[1].msg, conv[1].seg_name)
                  ELSE OrmFindFirst(conv[1].msg, conv[1].seg_name))

\* the messages of the _first_segment_line calls: lines separated by CR, by
\* LF and by CRLF, and renderings that fail
LineMessages ==
    {BodyMessage(v) :
        v \in {BaseVariant, ThreeObx}
              \cup {[ThreeObx EXCEPT !.sep = x] : x \in {<<LF>>, <<CR, LF>>}}
              \cup {[BaseVariant EXCEPT !.er7 = x] : x \in {"raises", "nomethod"}}}

\* the segment names of the _first_segment_line calls
LineNames == {TxtPID, TxtOBR, TxtOBX, <<"P", "V">>, <<"Z", "Z", "Z">>}

InitFirstSegmentLine ==
    \E cls \in HelperModules, msg \in LineMessages, seg_name \in LineNames :
        conv = <<CallFrame("_first_segment_line", cls, msg, seg_name, None, 0, 0)>>

\* _first_segment_line(msg, seg_name) of the module of conv[1].cls
FirstSegmentLineCall ==
    /\ conv[1].stage = "call"
    /\ conv[1].fn = "_first_segment_line"
    /\ ReturnFrom(Returned(IF conv[1].cls = "ORUR01Transformer"
                           THEN OruFirstSegmentLine(conv[1].msg, conv[1].seg_name)
                           ELSE OrmFirstSegmentLine(conv[1].msg, conv[1].seg_name)))

\* the variants whose tree and whose rendering the mixed messages combine:
\* the base message, one with other texts in PID-3, OBX-3 and OBX-5, and one
\* where these are empty
MixVariants ==
    {BaseVariant,
     [BaseVariant EXCEPT !.id = <<"9", "9">>, !.codes = <<<<"N", "A">>>>,
                         !.val = <<"7", ".", "1">>],
     [BaseVariant EXCEPT !.id = <<>>, !.codes = <<<<>>>>, !.val = <<>>]}

\* the OBR-4 identifiers of the trees of the mixed messages
MixObr4 == {<<"C", "B", "C">>, <<"X", "Y", "Z">>}

\* the segments of variant v with code as the identifier of OBR-4
SegmentsWithObr4(t, code) == [t EXCEPT !.obr.f.obr_4.c.identifier = LeafText(code)]

\* messages whose tree is that of one variant and whose rendering is that of
\* another, as the tests hand a segment object and a line of their own to
\* the builders
MixedMessages ==
    {MessageOf(vLine, SegmentsWithObr4(TreeSegments(vTree), code)) :
        vLine \in MixVariants, vTree \in MixVariants, code \in MixObr4}

InitTransformOnce ==
    \E cls \in HelperModules, msg \in MixedMessages :
        conv = <<CallFrame("transform", cls, msg, <<>>, None, 0, 0)>>

\* cls().transform(msg), the loop of ORUR01Transformer.transform run to its
\* end
TransformOnce ==
    /\ conv[1].stage = "call"
    /\ conv[1].fn = "transform"
    /\ ReturnFrom(Transform(conv[1].cls, conv[1].msg))

\* the texts of the date normalisation calls: the four lengths, a length
\* between them, longer texts, texts that are no calendar date, texts with
\* other characters, a text in white space and the empty text
DateTexts ==
    {<<"1", "9", "7", "0">>,
     <<"1", "9", "7", "0", "0", "2">>,
     <<"1", "9", "7", "0", "0", "2", "0", "3">>,
     <<"1", "9", "7", "0", "0", "2", "0", "3", "0", "4", "0", "5", "0", "6">>,
     <<"1", "9", "7", "0", "0">>,
     <<"1", "9", "7", "0", "0", "2", "0", "3", "0", "4">>,
     <<"1", "9", "7", "0", "0", "2", "0", "3", "0", "4", "0", "5", "0", "6", "+", "0", "1">>,
     <<"1", "9", "7", "0", "1", "3", "4", "5">>,
     <<"1", "9", "7", "0", "0", "2", "0", "3", "2", "5", "0", "0", "0", "0">>,
     <<"1", "9", "7", "0", "-", "0", "2", "-", "0", "3">>,
     <<"a", "b", "c", "d">>,
     <<" ", "1", "9", "7", "0", "0", "2", "0", "3", " ">>,
     <<>>}

DateFunctions ==
    {"_pid_birthdate", "_parse_hl7_ts", "_parse_hl7_yyyymmdd", "effectiveDateTime"}

InitDate ==
    \E fn \in DateFunctions, t \in DateTexts :
        conv = <<CallFrame(fn, NoTransformer, NoLookup.msg, <<>>, t, 0, 0)>>

\* _pid_birthdate(pid) of adt_a01.py for a PID whose pid_7 holds the text
PidBirthdateCall ==
    /\ conv[1].stage = "call"
    /\ conv[1].fn = "_pid_birthdate"
    /\ ReturnFrom(Returned(PidBirthdate([NoFields EXCEPT
                                            !.pid_7 = TextOrNone(conv[1].er7_line)])))

\* _parse_hl7_ts(ts) of adt_a03.py
ParseHl7TsCall ==
    /\ conv[1].stage = "call"
    /\ conv[1].fn = "_parse_hl7_ts"
    /\ ReturnFrom(Returned(ParseHl7Ts(conv[1].er7_line)))

\* _parse_hl7_yyyymmdd(val) of adt_a08.py, orm_o01.py and oru_r01.py for an
\* element that renders the text
ParseHl7YyyymmddCall ==
    /\ conv[1].stage = "call"
    /\ conv[1].fn = "_parse_hl7_yyyymmdd"
    /\ ReturnFrom(Returned(ParseHl7Yyyymmdd(LeafText(conv[1].er7_line))))

\* the effectiveDateTime block of _build_observation for an OBR line whose
\* OBR-7 is the text
EffectiveCall ==
    /\ conv[1].stage = "call"
    /\ conv[1].fn = "effectiveDateTime"
    /\ ReturnFrom(Returned(OruEffective(<<"O", "B", "R", "|", "1", "|", "|", "|", "|", "|", "|">>
                                        \o conv[1].er7_line)))

\* the transformers that map PID-8
GenderClasses ==
    {"ADTA01Transformer", "ADTA08Transformer", "ORMO01Transformer", "ORUR01Transformer"}

\* the PID-8 texts of the gender messages: the four codes, another letter
\* and the empty text
SexCodes == {<<"M">>, <<"F">>, <<"O">>, <<"U">>, <<"X">>, <<>>}

\* the message of variant v whose pid_8 is the element leaf
WithPid8(v, leaf) == MessageOf(v, [TreeSegments(v) EXCEPT !.pid.f.pid_8 = leaf])

\* the messages with each PID-8 text, pid_8 being an element that renders
\* the text (an empty element for the empty text) or, for the empty text,
\* None
GenderMessages ==
    {WithPid8([BaseVariant EXCEPT !.sex = s], LeafText(s)) : s \in SexCodes}
    \cup {WithPid8([BaseVariant EXCEPT !.sex = <<>>], LeafNone)}

InitGender ==
    \E cls \in GenderClasses, msg \in GenderMessages :
        conv = <<CallFrame("transform", cls, msg, <<>>, None, 0, 0)>>

\* a character that ends a line
IsTerminator(ch) == ch = CR \/ ch = LF

\* the positions of text where a line starts: the first character and every
\* character after a CR or LF, when it is no CR or LF itself
LineStarts(text) ==
    {i \in 1..Len(text) :
        /\ ~IsTerminator(text[i])
        /\ i = 1 \/ IsTerminator(text[i - 1])}

\* the line of text that starts at position i: up to the next CR or LF
LineAt(text, i) ==
    SubSeq(text, i,
           (CHOOSE j \in i..Len(text) :
               /\ \A k \in i..j : ~IsTerminator(text[k])
               /\ j = Len(text) \/ IsTerminator(text[j + 1])))

\* the starts of the lines of text that begin with prefix
StartsOfLinesWith(text, prefix) ==
    {i \in LineStarts(text) : StartsWith(LineAt(text, i), prefix)}

\* the text with the line that starts at i replaced by line
ReplaceLineAt(text, i, line) ==
    SubSeq(text, 1, i - 1) \o line
    \o SubSeq(text, i + Len(LineAt(text, i)), Len(text))

\* the ORC line with placer, filler and status as ORC-2, ORC-3 and ORC-5
OrcLine(placer, filler, status) ==
    TxtORC \o <<"|", "N", "W", "|">> \o placer \o <<"|">> \o filler
    \o <<"|", "|">> \o status

\* the message of variant v whose ORC segment has the elements l2, l3 and l5
\* as orc_2, orc_3 and orc_5 and whose rendering has the ORC line orc_line
OrderMessage(v, l2, l3, l5, orc_line) ==
    [MessageOf(v, [TreeSegments(v) EXCEPT !.orc.f.orc_2 = l2, !.orc.f.orc_3 = l3,
                                          !.orc.f.orc_5 = l5])
        EXCEPT !.er7 = Er7("text",
                           ReplaceLineAt(RawText(v),
                                         CHOOSE i \in LineStarts(RawText(v)) :
                                             StartsWith(LineAt(RawText(v), i), TxtORC),
                                         orc_line))]

\* the orc_5 elements of the status messages: the code of a completed order
\* in both cases, a code of an active one, a code outside the table, an
\* empty element, None, and elements that fail when read or when rendered
StatusLeaves ==
    {LeafText(TxtCM), LeafText(<<"c", "m">>), LeafText(<<"I", "P">>),
     LeafText(<<"X", "X">>), LeafText(<<>>), LeafNone, LeafRaises, LeafEr7Raises}

\* the ORC-5 texts of the ORC lines of the status messages
StatusTexts == {<<>>, TxtCM, <<"c", "m">>, <<"N", "W">>, <<"Z", "Z">>}

StatusMessages ==
    {OrderMessage(BaseVariant, LeafText(<<"P", "1">>), LeafText(<<"F", "1">>), l5,
                  OrcLine(<<"P", "1">>, <<"F", "1">>, r5)) :
        l5 \in StatusLeaves, r5 \in StatusTexts}

InitStatus ==
    \E msg \in StatusMessages :
        conv = <<CallFrame("transform", "ORMO01Transformer", msg, <<>>, None, 0, 0)>>

\* the OBX line with type, code and value as OBX-2, the identifier of OBX-3
\* and OBX-5
ObxLineOf(type, code, value) ==
    TxtOBX \o <<"|", "1", "|">> \o type \o <<"|">> \o code
    \o <<"^", "G", "l", "u", "c", "o", "s", "e", "|", "|">> \o value
    \o <<"|", "m", "g", "/", "d", "L">>

\* the message of variant v whose rendering has obx_line as its OBX line
ResultMessage(v, obx_line) ==
    [MessageOf(v, TreeSegments(v))
        EXCEPT !.er7 = Er7("text",
                           ReplaceLineAt(RawText(v),
                                         CHOOSE i \in LineStarts(RawText(v)) :
                                             StartsWith(LineAt(RawText(v), i), TxtOBX),
                                         obx_line))]

\* the OBX-2 types of the value messages: numeric and string
ValueTypes == {<<"N", "M">>, <<"S", "T">>}

\* the OBX-5 texts of the value messages: decimals, a decimal in white
\* space, texts that are no decimal and a value of two components
ValueTexts ==
    {<<"5", ".", "4">>, <<"-", "3">>, <<" ", "7", " ">>, <<"h", "i", "g", "h">>,
     <<"1", ".", "2", ".", "3">>, <<"5", ".", "4", "^", "x">>}

\* the OBX-3 identifiers of the value messages: a code and a text that
\* Coding rejects as a code
ValueCodes == {<<"G", "L", "U">>, <<"G", "L", " ", " ", "U">>}

ValueMessages ==
    {ResultMessage(BaseVariant, ObxLineOf(type, code, value)) :
        type \in ValueTypes, code \in ValueCodes, value \in ValueTexts}

InitValue ==
    \E msg \in ValueMessages :
        conv = <<CallFrame("transform", "ORUR01Transformer", msg, <<>>, None, 0, 0)>>

\* the orc_2 elements of the identifier messages: a placer number, one that
\* is no FHIR id, an empty element, None and an element that fails when read
PlacerLeaves ==
    {LeafText(<<"P", "1">>), LeafText(<<"P", "_", "1">>), LeafText(<<>>), LeafNone,
     LeafRaises}

\* the orc_3 elements of the identifier messages
FillerLeaves == {LeafText(<<"F", "1">>), LeafNone}

\* the messages with each combination of ORC-2 and ORC-3 in the segment and
\* in the line, for a patient with an identifier and for one without
IdentifierMessages ==
    {OrderMessage([BaseVariant EXCEPT !.id = id], l2, l3, LeafText(TxtCM),
                  OrcLine(r2, r3, TxtCM)) :
        id \in {BaseVariant.id, <<>>}, l2 \in PlacerLeaves, l3 \in FillerLeaves,
        r2 \in {<<>>, <<"P", "9">>}, r3 \in {<<>>, <<"F", "9">>}}

InitIdentifier ==
    \E msg \in IdentifierMessages :
        conv = <<CallFrame("transform", "ORMO01Transformer", msg, <<>>, None, 0, 0)>>

\* the messages for a patient with an identifier and for one without, each
\* with a visit number in PV1-19 and without
UnidentifiedMessages ==
    {MessageOf([BaseVariant EXCEPT !.id = id],
               [TreeSegments([BaseVariant EXCEPT !.id = id]) EXCEPT !.pv1.f.pv1_19 = l19]) :
        id \in {BaseVariant.id, <<>>}, l19 \in {LeafText(<<"V", "1">>), LeafNone}}

InitUnidentified ==
    \E cls \in AdtClasses, msg \in UnidentifiedMessages :
        conv = <<CallFrame("transform", cls, msg, <<>>, None, 0, 0)>>

\* the text with line and the separator sep put in before position i
InsertLineAt(text, i, line, sep) ==
    SubSeq(text, 1, i - 1) \o line \o sep \o SubSeq(text, i, Len(text))

\* the OBR line number n with placer, filler and when as OBR-2, OBR-3 and
\* OBR-7
ObrLineOf(n, placer, filler, when) ==
    TxtOBR \o <<"|">> \o n \o <<"|">> \o placer \o <<"|">> \o filler
    \o <<"|", "C", "B", "C", "^", "B", "l", "o", "o", "d", " ", "c", "o", "u", "n", "t", "|", "|", "|">>
    \o when

\* the OBR line of the second order of the two-order messages
SecondObrLine ==
    ObrLineOf(<<"2">>, <<"P", "2">>, <<"F", "2">>,
              <<"2", "0", "2", "1", "0", "5", "0", "6">>)

\* the rendering of three OBX lines with first as its OBR line
WithFirstObr(first) ==
    ReplaceLineAt(RawText(ThreeObx),
                  CHOOSE i \in LineStarts(RawText(ThreeObx)) :
                      StartsWith(LineAt(RawText(ThreeObx), i), TxtOBR),
                  first)

\* the start of the second OBX line of text
SecondObxStart(text) ==
    CHOOSE i \in StartsOfLinesWith(text, TxtOBX) :
        Cardinality({j \in StartsOfLinesWith(text, TxtOBX) : j < i}) = 1

\* a message of two orders: the OBR line first and one OBX line, then the
\* second OBR line and two OBX lines; its tree has the one OBR segment of
\* the variant
TwoOrderMessage(first) ==
    [MessageOf(ThreeObx, TreeSegments(ThreeObx))
        EXCEPT !.er7 = Er7("text",
                           InsertLineAt(WithFirstObr(first),
                                        SecondObxStart(WithFirstObr(first)),
                                        SecondObrLine, ThreeObx.sep))]

\* the OBR-7 texts of the first order: an instant, a date, a year alone and
\* the empty text
WhenTexts ==
    {<<"2", "0", "2", "0", "0", "1", "0", "2", "0", "3", "0", "4", "0", "5">>,
     <<"2", "0", "2", "0", "0", "1", "0", "2">>, <<"2", "0", "2", "0">>, <<>>}

TwoOrderMessages ==
    {TwoOrderMessage(ObrLineOf(<<"1">>, placer, filler, when)) :
        placer \in {<<"P", "7">>, <<>>}, filler \in {<<"F", "7">>, <<>>},
        when \in WhenTexts}

InitTwoOrders ==
    \E msg \in TwoOrderMessages :
        conv = <<CallFrame("transform", "ORUR01Transformer", msg, <<>>, None, 0, 0)>>

\* the normalisers that take a text and return a text
TextNormalisers == {"_pid_birthdate", "_parse_hl7_ts", "_parse_hl7_yyyymmdd"}

\* fn applied to the text t
NormaliseText(fn, t) ==
    CASE fn = "_pid_birthdate" -> PidBirthdate([NoFields EXCEPT !.pid_7 = TextOrNone(t)])
      [] fn = "_parse_hl7_ts" -> ParseHl7Ts(t)
      [] fn = "_parse_hl7_yyyymmdd" -> ParseHl7Yyyymmdd(LeafText(t))

\* the caller hands the value a normaliser returned to the same normaliser
NormalizeAgain ==
    /\ conv[1].stage = "returned"
    /\ conv[1].fn \in TextNormalisers
    /\ conv[1].result.value # None
    /\ conv' = [conv EXCEPT
                   ![1].stage = "renormalised",
                   ![1].er7_line = conv[1].result.value,
                   ![1].result = Returned(NormaliseText(conv[1].fn, conv[1].result.value))]
    /\ UNCHANGED <<REGISTRY, DISCOVERED, sys_modules, importCalls, listing, pc,
                   loadIdx, loadCalls, err, regCall, lookup>>

InitCalls ==
    /\ AfterPopulation
    /\ \/ InitApplies
       \/ InitFieldComp
       \/ InitFindFirst
       \/ InitFirstSegmentLine
       \/ InitTransformOnce
       \/ InitDate
       \/ InitGender
       \/ InitStatus
       \/ InitValue
       \/ InitIdentifier
       \/ InitUnidentified
       \/ InitTwoOrders

NextCalls ==
    \/ AppliesCall
    \/ FieldCompCall
    \/ FindFirstCall
    \/ FirstSegmentLineCall
    \/ TransformOnce
    \/ PidBirthdateCall
    \/ ParseHl7TsCall
    \/ ParseHl7YyyymmddCall
    \/ EffectiveCall
    \/ NormalizeAgain

SpecCalls == InitCalls /\ [][NextCalls]_vars

\* --------------------------------------------------------------------------
\* applies
\* --------------------------------------------------------------------------

\* the frame of the call of fn, once it has returned
ReturnedCall(fn) ==
    /\ conv # <<>>
    /\ "fn" \in DOMAIN conv[1]
    /\ conv[1].fn = fn
    /\ conv[1].stage = "returned"

\* MSH-9 is an element that renders the text it holds
RendersText(msg) == msg.msh.acc = "ok" /\ msg.msh.shape = "er7"

\* text is ORU^R01 followed by exactly one further component
ExtendedOruR01(text) ==
    /\ Len(Split(text, "^")) = 3
    /\ StartsWith(text, EVT_ORU_R01 \o <<"^">>)

\* C12: for a message whose MSH-9 renders a text, applies returns true when
\* the text equals the code the transformer is bound to or, for the ORU^R01
\* transformer, is ORU^R01 followed by one further component, and false for
\* every other text.
C12_AppliesIffTriggerEquals ==
    (ReturnedCall("applies") /\ RendersText(conv[1].msg)) =>
        conv[1].result =
            Returned(\/ conv[1].msg.msh.text = EventOf(conv[1].cls)
                     \/ /\ conv[1].cls = "ORUR01Transformer"
                        /\ ExtendedOruR01(conv[1].msg.msh.text))

\* C12 for the transformers other than ORUR01Transformer
C12_AppliesIffTriggerEqualsNotOru ==
    (ReturnedCall("applies") /\ RendersText(conv[1].msg)
     /\ conv[1].cls # "ORUR01Transformer") =>
        conv[1].result = Returned(conv[1].msg.msh.text = EventOf(conv[1].cls))

\* MSH or MSH-9 is missing or empty, or reading or rendering MSH-9 raises
HeaderUnreadable(msg) ==
    \/ msg.msh.acc # "ok"
    \/ msg.msh.shape \in {"none", "er7none", "er7raises", "valueraises", "strraises"}
    \/ msg.msh.shape \in {"er7", "str"} /\ msg.msh.text = <<>>

\* C13: applies returns false, and raises nothing, for a message whose MSH
\* or MSH-9 is missing or empty or whose MSH-9 cannot be read or rendered.
C13_AppliesFalseOnUnreadableHeader ==
    (ReturnedCall("applies") /\ HeaderUnreadable(conv[1].msg)) =>
        conv[1].result = Returned(FALSE)

\* C13 for the transformers other than ADTA03Transformer
C13_AppliesFalseNotA03 ==
    (ReturnedCall("applies") /\ HeaderUnreadable(conv[1].msg)
     /\ conv[1].cls # "ADTA03Transformer") =>
        conv[1].result = Returned(FALSE)

\* --------------------------------------------------------------------------
\* The key of the registry lookup
\* --------------------------------------------------------------------------

\* msh_9 carries a text: rendered as str or as bytes, held in value, or
\* being the str itself
CarriesText(msg) ==
    msg.msh.acc = "ok" /\ msg.msh.shape \in {"er7", "er7bytes", "value", "str"}

\* the positions of '^' in t
Carets(t) == {i \in 1..Len(t) : t[i] = "^"}

\* t up to its second '^', all of t when it has fewer than two
UpToSecondCaret(t) ==
    IF Cardinality(Carets(t)) < 2 THEN t
    ELSE SubSeq(t, 1, (CHOOSE i \in Carets(t) :
                          Cardinality({j \in Carets(t) : j < i}) = 1) - 1)

\* C14: get_transformer on a message whose MSH-9 carries a text, as str or as
\* bytes, returns what the registry holds under the first two components of
\* the trimmed text (under the trimmed text when it has no '^'), None when it
\* holds nothing there; so the result depends on nothing else of the text.
C14_LookupByFirstTwoComponents ==
    (lookup.op = "get_transformer" /\ CarriesText(lookup.msg)) =>
        lookup.result =
            Returned(IF UpToSecondCaret(Strip(lookup.msg.msh.text)) \in DOMAIN REGISTRY
                     THEN REGISTRY[UpToSecondCaret(Strip(lookup.msg.msh.text))]
                     ELSE NoTransformer)

\* the extended trigger ADT^A01^ADT_A01, rendered as bytes, has resolved to
\* the transformer registered under ADT^A01
C14_Witness ==
    /\ lookup.op = "get_transformer"
    /\ lookup.msg.msh.shape = "er7bytes"
    /\ lookup.msg.msh.text = EVENT_CODE \o <<"^", "A", "D", "T", "_", "A", "0", "1">>
    /\ EVENT_CODE \in DOMAIN REGISTRY
    /\ lookup.result = Returned(REGISTRY[EVENT_CODE])

\* --------------------------------------------------------------------------
\* The two paths of a field
\* --------------------------------------------------------------------------

\* the first child of the root of msg with the given name (the trees of the
\* mixed messages are flat and hold every segment the formulas ask for)
SegmentNamed(msg, name) ==
    msg.children.nodes[CHOOSE i \in 1..Len(msg.children.nodes) :
                          /\ msg.children.nodes[i].name = name
                          /\ \A j \in 1..(i - 1) : msg.children.nodes[j].name # name]

\* the scalar the structured path yields for an element: its text, trimmed;
\* the empty text when it yields nothing
StructuredScalar(leaf) == IF leaf.kind = "text" THEN Strip(leaf.text) ELSE <<>>

\* the structured candidates of the fields read through both paths
StructuredPid3(msg) ==
    IF SegmentNamed(msg, "PID").f.pid_3.kind = "rep"
    THEN StructuredScalar(SegmentNamed(msg, "PID").f.pid_3.c.cx_1) ELSE <<>>

StructuredObr4(msg) == StructuredScalar(SegmentNamed(msg, "OBR").f.obr_4.c.identifier)

StructuredObx3(msg) ==
    IF SegmentNamed(msg, "OBX").f.obx_3.kind = "rep"
    THEN StructuredScalar(SegmentNamed(msg, "OBX").f.obx_3.c.identifier) ELSE <<>>

\* C15: in the records that transform returns, a field read through both
\* paths holds the structured value whenever the structured candidate yields
\* a non-empty scalar: Patient.id from PID-3, the code of the ServiceRequest
\* from OBR-4 and the code of the Observation from OBX-3; the raw line is
\* used only otherwise.
C15_StructuredPreferred ==
    (ReturnedCall("transform") /\ conv[1].cls \in HelperModules
     /\ conv[1].result.exc = "none") =>
        /\ StructuredPid3(conv[1].msg) # <<>> =>
               conv[1].result.value[1].id = StructuredPid3(conv[1].msg)
        /\ (conv[1].cls = "ORMO01Transformer" /\ StructuredObr4(conv[1].msg) # <<>>) =>
               conv[1].result.value[2].code.code = StructuredObr4(conv[1].msg)
        /\ (conv[1].cls = "ORUR01Transformer" /\ Len(conv[1].result.value) >= 2
            /\ StructuredObx3(conv[1].msg) # <<>>) =>
               conv[1].result.value[2].code.code = StructuredObx3(conv[1].msg)

\* C15 for PID-3 alone
C15_StructuredPid3Preferred ==
    (ReturnedCall("transform") /\ conv[1].cls \in HelperModules
     /\ conv[1].result.exc = "none"
     /\ StructuredPid3(conv[1].msg) # <<>>) =>
        conv[1].result.value[1].id = StructuredPid3(conv[1].msg)

\* what the code does for OBR-4 and OBX-3: the component of the raw line
\* whenever the line has one
C15_RawFirstForCodes ==
    (ReturnedCall("transform") /\ conv[1].result.exc = "none") =>
        /\ (conv[1].cls = "ORMO01Transformer"
            /\ FieldCompFromEr7(OrmFirstSegmentLine(conv[1].msg, TxtOBR), 4, 1) # None) =>
               conv[1].result.value[2].code.code =
                   FieldCompFromEr7(OrmFirstSegmentLine(conv[1].msg, TxtOBR), 4, 1)
        /\ (conv[1].cls = "ORUR01Transformer" /\ Len(conv[1].result.value) >= 2
            /\ FieldCompFromEr7(OruFirstSegmentLine(conv[1].msg, TxtOBX), 3, 1) # None) =>
               conv[1].result.value[2].code.code =
                   FieldCompFromEr7(OruFirstSegmentLine(conv[1].msg, TxtOBX), 3, 1)

\* --------------------------------------------------------------------------
\* _field_comp_from_er7
\* --------------------------------------------------------------------------

\* the fields of a line: the texts between its '|', the first being the
\* segment name
FieldsOf(line) == Split(Strip(line), "|")

\* the components of a field: the texts between its '^'
ComponentsOf(field) == Split(field, "^")

\* the call is one with a component to return: the line is a text, the
\* indexes are in range and the component is not blank
HasComponent(c) ==
    /\ c.er7_line # None
    /\ c.er7_line # <<>>
    /\ c.field_index >= 1
    /\ c.field_index <= Len(FieldsOf(c.er7_line)) - 1
    /\ c.comp_index >= 1
    /\ c.comp_index <= Len(ComponentsOf(FieldsOf(c.er7_line)[c.field_index + 1]))
    /\ Strip(ComponentsOf(FieldsOf(c.er7_line)[c.field_index + 1])[c.comp_index]) # <<>>

\* C16: _field_comp_from_er7 raises nothing; it returns None when the line is
\* None or empty, when field_index is below 1 or beyond the last field, when
\* comp_index is below 1 or beyond the last component, or when the component
\* is empty after trimming; otherwise it returns the trimmed component
\* comp_index of field field_index, the segment name being field 0.
C16_FieldComp ==
    ReturnedCall("_field_comp_from_er7") =>
        /\ conv[1].result.exc = "none"
        /\ conv[1].result.value =
               IF HasComponent(conv[1])
               THEN Strip(ComponentsOf(FieldsOf(conv[1].er7_line)[conv[1].field_index + 1])
                              [conv[1].comp_index])
               ELSE None

\* the call on the OBX line in white space for field 3, component 1 has
\* returned the trimmed '5.4'
C16_Witness ==
    /\ ReturnedCall("_field_comp_from_er7")
    /\ conv[1].er7_line # None
    /\ StartsWith(conv[1].er7_line, <<" ", "O", "B", "X">>)
    /\ conv[1].field_index = 3
    /\ conv[1].comp_index = 1
    /\ conv[1].result = Returned(<<"5", ".", "4">>)

\* --------------------------------------------------------------------------
\* _find_first and _first_segment_line
\* --------------------------------------------------------------------------

\* C17: what _find_first returns, in either module, is None or a non-empty
\* match, never an empty container, whether the empty match is met at the
\* attribute shortcut or below a child.
C17_NeverEmptyContainer ==
    ReturnedCall("_find_first") => conv[1].result.value.kind # "list0"

\* C17 for _find_first of oru_r01.py
C17_NeverEmptyContainerOru ==
    (ReturnedCall("_find_first") /\ conv[1].cls = "ORUR01Transformer") =>
        conv[1].result.value.kind # "list0"

\* C18: no call of _find_first or of _first_segment_line raises, whatever
\* the attribute lookup, the children accessor or the rendering does.
C18_SearchNeverRaises ==
    (ReturnedCall("_find_first") \/ ReturnedCall("_first_segment_line")) =>
        conv[1].result.exc = "none"

\* C18 for _first_segment_line, and for _find_first on a node whose
\* children accessor does not return None
C18_NeverRaisesUnlessChildrenNone ==
    (\/ ReturnedCall("_first_segment_line")
     \/ ReturnedCall("_find_first") /\ conv[1].msg.children.kind # "none") =>
        conv[1].result.exc = "none"

\* the rendered text of the message of a _first_segment_line call, empty
\* when the rendering fails
Rendered(msg) == IF msg.er7.kind = "text" THEN msg.er7.text ELSE <<>>

\* the first line of text that begins with prefix, None when there is none
FirstLineWith(text, prefix) ==
    IF StartsOfLinesWith(text, prefix) = {} THEN None
    ELSE LineAt(text, CHOOSE i \in StartsOfLinesWith(text, prefix) :
                         \A j \in StartsOfLinesWith(text, prefix) : i <= j)

\* C19: _first_segment_line returns the first line of the rendered text that
\* starts with the segment name and '|', None when no line does; a line
\* being a run of characters between terminators, the result is the same for
\* lines separated by CR, by LF and by CRLF.
C19_FirstLine ==
    ReturnedCall("_first_segment_line") =>
        conv[1].result =
            Returned(FirstLineWith(Rendered(conv[1].msg), conv[1].seg_name \o <<"|">>))

\* the OBX line of a text whose lines are separated by CRLF has been returned
C19_Witness ==
    /\ ReturnedCall("_first_segment_line")
    /\ conv[1].seg_name = TxtOBX
    /\ \E i \in 1..(Len(Rendered(conv[1].msg)) - 1) :
          Rendered(conv[1].msg)[i] = CR /\ Rendered(conv[1].msg)[i + 1] = LF
    /\ conv[1].result.value # None
    /\ StartsWith(conv[1].result.value, <<"O", "B", "X", "|", "1", "|">>)

\* --------------------------------------------------------------------------
\* Date normalisation
\* --------------------------------------------------------------------------

\* t is n digits
DigitsOfLength(t, n) == Len(t) = n /\ IsDigitStr(t)

\* t starts with n digits
HasDigitPrefix(t, n) == Len(t) >= n /\ IsDigitStr(SubSeq(t, 1, n))

\* YYYY-MM of a text that starts with YYYYMM
YearMonth(t) == SubSeq(t, 1, 4) \o <<"-">> \o SubSeq(t, 5, 6)

\* YYYY-MM-DD of a text that starts with YYYYMMDD
YearMonthDay(t) == YearMonth(t) \o <<"-">> \o SubSeq(t, 7, 8)

\* the instant in UTC of a text that starts with YYYYMMDDhhmmss
InstantUtc(t) == YearMonthDay(t) \o <<"T">> \o SubSeq(t, 9, 14)

\* the text is free of surrounding white space and, where it starts with
\* the digits of a month, a day or a time, these are within their ranges
WellFormedDate(t) ==
    /\ t = Strip(t)
    /\ DigitsOfLength(t, 6) => ToInt(SubSeq(t, 5, 6)) \in 1..12
    /\ HasDigitPrefix(t, 8) => ValidYmd(SubSeq(t, 1, 8))
    /\ HasDigitPrefix(t, 14) => ValidHms(SubSeq(t, 9, 14))

\* the text of the returned call of a date normaliser
DateCallReturned ==
    /\ conv # <<>>
    /\ "fn" \in DOMAIN conv[1]
    /\ conv[1].fn \in DateFunctions
    /\ conv[1].stage = "returned"

BirthdateOfText(t) ==
    CASE DigitsOfLength(Strip(t), 4) -> Strip(t)
      [] DigitsOfLength(Strip(t), 6) -> YearMonth(Strip(t))
      [] DigitsOfLength(Strip(t), 8) -> YearMonthDay(Strip(t))
      [] OTHER -> None

\* the date of a text that starts with the eight digits of a calendar date
DateOfPrefix(t) ==
    IF HasDigitPrefix(t, 8) /\ ValidYmd(SubSeq(t, 1, 8)) THEN YearMonthDay(t) ELSE None

\* the instant of a text that starts with fourteen digits (a date and a
\* time of day), midnight of the date for a text that starts with eight
\* digits only
InstantOfPrefix(t) ==
    IF HasDigitPrefix(t, 14)
    THEN (IF ValidYmd(SubSeq(t, 1, 8)) /\ ValidHms(SubSeq(t, 9, 14))
          THEN InstantUtc(t) ELSE None)
    ELSE IF HasDigitPrefix(t, 8) /\ ValidYmd(SubSeq(t, 1, 8))
         THEN YearMonthDay(t) \o <<"T">> \o TxtMidnight
    ELSE None

Renormalised ==
    /\ conv # <<>>
    /\ "fn" \in DOMAIN conv[1]
    /\ conv[1].stage = "renormalised"

\* C21: normalising a normalised date returns it unchanged.
C21_NormaliseIdempotent ==
    Renormalised => conv[1].result.value = conv[1].er7_line

\* C21 as the code has it: the normalisers accept the HL7 digit forms only,
\* so a normalised YYYY-MM or YYYY-MM-DD is rejected when normalised again;
\* only the YYYY of _pid_birthdate, which is its own normal form, is
\* returned unchanged.
C21_NormalisedIsRejected ==
    Renormalised =>
        conv[1].result.value =
            IF conv[1].fn = "_pid_birthdate" /\ DigitsOfLength(conv[1].er7_line, 4)
            THEN conv[1].er7_line
            ELSE None

\* _parse_hl7_yyyymmdd has been applied to the YYYY-MM-DD it returned and has
\* returned None
C21_Witness ==
    /\ Renormalised
    /\ conv[1].fn = "_parse_hl7_yyyymmdd"
    /\ Len(conv[1].er7_line) = 10
    /\ conv[1].er7_line[5] = "-"
    /\ conv[1].result = Returned(None)

\* --------------------------------------------------------------------------
\* Gender
\* --------------------------------------------------------------------------

\* a transform call of a transformer that maps PID-8 has returned its list
GenderCallReturned ==
    /\ ReturnedCall("transform")
    /\ conv[1].cls \in GenderClasses
    /\ conv[1].result.exc = "none"

\* the text of PID-8 of the message of the call, trimmed; empty when pid_8
\* is None or renders nothing
SexText(msg) == StructuredScalar(SegmentNamed(msg, "PID").f.pid_8)

\* the gender of a single-letter code
GenderOfCode(code) ==
    CASE code = <<"M">> -> "male"
      [] code = <<"F">> -> "female"
      [] code = <<"O">> -> "other"
      [] code = <<"U">> -> "unknown"

FourCodes == {<<"M">>, <<"F">>, <<"O">>, <<"U">>}

\* C22: in every transformer that maps PID-8, the codes M, F, O and U give
\* the genders male, female, other and unknown.
C22_GenderOfFourCodes ==
    (GenderCallReturned /\ SexText(conv[1].msg) \in FourCodes) =>
        conv[1].result.value[1].gender = GenderOfCode(SexText(conv[1].msg))

\* C22 without the code O outside ADTA01Transformer
C22_GenderExceptOther ==
    (GenderCallReturned /\ SexText(conv[1].msg) \in FourCodes
     /\ (conv[1].cls = "ADTA01Transformer" \/ SexText(conv[1].msg) # <<"O">>)) =>
        conv[1].result.value[1].gender = GenderOfCode(SexText(conv[1].msg))

\* C23: a non-empty PID-8 other than M, F, O and U gives gender unknown; an
\* empty or absent PID-8 leaves gender absent.
C23_UnknownOrAbsent ==
    GenderCallReturned =>
        /\ (SexText(conv[1].msg) # <<>> /\ SexText(conv[1].msg) \notin FourCodes) =>
               conv[1].result.value[1].gender = "unknown"
        /\ SexText(conv[1].msg) = <<>> =>
               conv[1].result.value[1].gender = "absent"

\* C23 in the two transformers that set gender only for a non-empty text
C23_UnknownOrAbsentOrmOru ==
    (GenderCallReturned /\ conv[1].cls \in HelperModules) =>
        /\ (SexText(conv[1].msg) # <<>> /\ SexText(conv[1].msg) \notin FourCodes) =>
               conv[1].result.value[1].gender = "unknown"
        /\ SexText(conv[1].msg) = <<>> =>
               conv[1].result.value[1].gender = "absent"

\* --------------------------------------------------------------------------
\* ServiceRequest.status
\* --------------------------------------------------------------------------

\* a transform call of ORMO01Transformer has returned its records
OrmCallReturned ==
    /\ ReturnedCall("transform")
    /\ conv[1].cls = "ORMO01Transformer"
    /\ conv[1].result.exc = "none"

\* component c of field f of a line, trimmed; empty when the line is None or
\* has no such field or component
LineComponent(line, f, c) ==
    IF line = None THEN <<>>
    ELSE IF Len(FieldsOf(line)) < f + 1 THEN <<>>
    ELSE IF Len(ComponentsOf(FieldsOf(line)[f + 1])) < c THEN <<>>
    ELSE Strip(ComponentsOf(FieldsOf(line)[f + 1])[c])

\* component c of field f of the first line of the rendering of msg that
\* starts with name and '|'
RawComponent(msg, name, f, c) ==
    LineComponent(FirstLineWith(Rendered(msg), name \o <<"|">>), f, c)

\* the ORC-5 text of the message of the call: that of the element, that of
\* the line when the element gives none
Orc5Text(msg) ==
    IF StructuredScalar(SegmentNamed(msg, "ORC").f.orc_5) # <<>>
    THEN StructuredScalar(SegmentNamed(msg, "ORC").f.orc_5)
    ELSE RawComponent(msg, TxtORC, 5, 1)

\* C24: the status of the ServiceRequest of ORMO01Transformer is completed
\* when ORC-5 (the element, else field 5 of the ORC line) is CM in either
\* case; it is active for every other code, for an empty or absent ORC-5 and
\* when reading the element fails.
C24_StatusFromOrc5 ==
    OrmCallReturned =>
        conv[1].result.value[2].status =
            IF SegmentNamed(conv[1].msg, "ORC").f.orc_5.kind = "raises" THEN "active"
            ELSE IF Upper(Orc5Text(conv[1].msg)) = TxtCM THEN "completed"
            ELSE "active"

\* an order completed by the lower-case code of its ORC line, the element
\* being empty
C24_Witness ==
    /\ OrmCallReturned
    /\ StructuredScalar(SegmentNamed(conv[1].msg, "ORC").f.orc_5) = <<>>
    /\ SegmentNamed(conv[1].msg, "ORC").f.orc_5.kind # "raises"
    /\ RawComponent(conv[1].msg, TxtORC, 5, 1) = <<"c", "m">>
    /\ conv[1].result.value[2].status = "completed"

\* --------------------------------------------------------------------------
\* Observation.value[x]
\* --------------------------------------------------------------------------

\* the k-th line of text that begins with prefix
KthLineWith(text, prefix, k) ==
    LineAt(text, CHOOSE i \in StartsOfLinesWith(text, prefix) :
                     Cardinality({j \in StartsOfLinesWith(text, prefix) : j < i}) = k - 1)

\* the lines of the rendering of msg that begin with 'OBX|'
ObxCount(msg) == Cardinality(StartsOfLinesWith(Rendered(msg), TxtOBX \o <<"|">>))

\* the OBX-5 value of the k-th OBX line of msg: its first component, trimmed
Obx5Value(msg, k) ==
    LineComponent(KthLineWith(Rendered(msg), TxtOBX \o <<"|">>, k), 5, 1)

\* the value[x] of record r is the one for the OBX-5 text t: a quantity when
\* t is a decimal, else the string t
CarriesValueOf(r, t) ==
    IF IsDecimalText(t) THEN r.value.kind = "quantity"
    ELSE r.value.kind = "string" /\ r.value.value = t

\* a transform call of ORUR01Transformer has ended
OruCallEnded ==
    /\ ReturnedCall("transform")
    /\ conv[1].cls = "ORUR01Transformer"

\* C25: for every OBX line with a non-empty OBX-5 an Observation is
\* produced, with valueQuantity when the trimmed text is a decimal,
\* whatever OBX-2 says, and with valueString holding the trimmed text when
\* it is not; it never has both and never neither.
C25_ValueOfObx5 ==
    OruCallEnded =>
        \A k \in 1..ObxCount(conv[1].msg) :
            Obx5Value(conv[1].msg, k) # <<>> =>
                /\ conv[1].result.exc = "none"
                /\ Len(conv[1].result.value) >= k + 1
                /\ CarriesValueOf(conv[1].result.value[k + 1], Obx5Value(conv[1].msg, k))

\* C25 for the calls that return their records
C25_ValueOfObx5WhenReturned ==
    (OruCallEnded /\ conv[1].result.exc = "none") =>
        \A k \in 1..ObxCount(conv[1].msg) :
            Obx5Value(conv[1].msg, k) # <<>> =>
                /\ Len(conv[1].result.value) >= k + 1
                /\ CarriesValueOf(conv[1].result.value[k + 1], Obx5Value(conv[1].msg, k))

\* a numeric value of an OBX line of type ST has become a quantity
C25_QuantityOfStringType ==
    /\ OruCallEnded
    /\ conv[1].result.exc = "none"
    /\ ObxCount(conv[1].msg) = 1
    /\ LineComponent(KthLineWith(Rendered(conv[1].msg), TxtOBX \o <<"|">>, 1), 2, 1) = <<"S", "T">>
    /\ Obx5Value(conv[1].msg, 1) = <<"7">>
    /\ conv[1].result.value[2].value.kind = "quantity"

\* --------------------------------------------------------------------------
\* Coded concepts of Encounter and Observation
\* --------------------------------------------------------------------------

\* record r carries its coded concept: an Encounter its class, an
\* Observation a code that has a coding or a text
CarriesConcept(r) ==
    /\ r.resourceType = "Encounter" => r.hasClass
    /\ r.resourceType = "Observation" =>
           r.code.has /\ (r.code.code # None \/ NonEmpty(r.code.text))

\* C26: every Encounter of ADTA01Transformer, ADTA03Transformer and
\* ADTA08Transformer carries a class and every Observation of
\* ORUR01Transformer carries a code, a placeholder when the message has none.
C26_ConceptAlwaysPresent ==
    \A c \in DOMAIN conv :
        (conv[c].stage = "returned" /\ conv[c].result.exc = "none") =>
            \A i \in 1..Len(conv[c].result.value) :
                CarriesConcept(conv[c].result.value[i])

\* C26 outside ADTA01Transformer
C26_ConceptPresentExceptA01 ==
    \A c \in DOMAIN conv :
        (conv[c].stage = "returned" /\ conv[c].result.exc = "none"
         /\ conv[c].cls # "ADTA01Transformer") =>
            \A i \in 1..Len(conv[c].result.value) :
                CarriesConcept(conv[c].result.value[i])

\* an Encounter whose class is the placeholder, a concept without coding
C26_PlaceholderClass ==
    \E c \in DOMAIN conv :
        /\ conv[c].stage = "returned"
        /\ conv[c].result.exc = "none"
        /\ conv[c].cls \in {"ADTA03Transformer", "ADTA08Transformer"}
        /\ conv[c].result.value[2].hasClass
        /\ conv[c].result.value[2].coding = <<>>

\* --------------------------------------------------------------------------
\* ServiceRequest.id and ServiceRequest.identifier
\* --------------------------------------------------------------------------

\* the text of ORC field f of the message: that of the element leaf, that of
\* the ORC line when the element gives none
OrcText(msg, leaf, f) ==
    IF StructuredScalar(leaf) # <<>> THEN StructuredScalar(leaf)
    ELSE RawComponent(msg, TxtORC, f, 1)

PlacerOf(msg) == OrcText(msg, SegmentNamed(msg, "ORC").f.orc_2, 2)

FillerOf(msg) == OrcText(msg, SegmentNamed(msg, "ORC").f.orc_3, 3)

\* the order number of the message: the placer number, the filler number
\* when there is no placer number, empty when there is neither
OrderNumber(msg) == IF PlacerOf(msg) # <<>> THEN PlacerOf(msg) ELSE FillerOf(msg)

\* the patient of the call has an id
PatientHasId == conv[1].result.value[1].id # None

\* C27: the id of the ServiceRequest is ORC-2 when present, else ORC-3 when
\* present, else 'sr-' and the patient id; its identifiers are the placer
\* number when present, the filler number only when there is no placer
\* number.
C27_IdFromPlacerThenFiller ==
    (OrmCallReturned /\ PatientHasId
     /\ SegmentNamed(conv[1].msg, "ORC").f.orc_2.kind # "raises") =>
        /\ conv[1].result.value[2].id =
               IF OrderNumber(conv[1].msg) # <<>> THEN OrderNumber(conv[1].msg)
               ELSE TxtSr \o conv[1].result.value[1].id
        /\ conv[1].result.value[2].identifier =
               IF OrderNumber(conv[1].msg) # <<>> THEN <<OrderNumber(conv[1].msg)>>
               ELSE <<>>

\* C27 as the code has it: the order number is the id only when it is a
\* FHIR id, and a failing read of orc_2 leaves both numbers unread
C27_IdFromAcceptedNumber ==
    (OrmCallReturned /\ PatientHasId) =>
        /\ conv[1].result.value[2].id =
               IF /\ SegmentNamed(conv[1].msg, "ORC").f.orc_2.kind # "raises"
                  /\ IdAccepted(OrderNumber(conv[1].msg))
               THEN OrderNumber(conv[1].msg)
               ELSE TxtSr \o conv[1].result.value[1].id
        /\ conv[1].result.value[2].identifier =
               IF /\ SegmentNamed(conv[1].msg, "ORC").f.orc_2.kind # "raises"
                  /\ OrderNumber(conv[1].msg) # <<>>
               THEN <<OrderNumber(conv[1].msg)>>
               ELSE <<>>

\* a placer number that is no FHIR id is an identifier and not the id, a
\* filler number being there
C27_Witness ==
    /\ OrmCallReturned
    /\ PatientHasId
    /\ PlacerOf(conv[1].msg) = <<"P", "_", "1">>
    /\ FillerOf(conv[1].msg) # <<>>
    /\ conv[1].result.value[2].identifier = <<<<"P", "_", "1">>>>
    /\ conv[1].result.value[2].id = TxtSr \o conv[1].result.value[1].id

\* --------------------------------------------------------------------------
\* get_transformer and applies
\* --------------------------------------------------------------------------

\* get_transformer has returned a transformer for its message
LookupFound ==
    /\ lookup.op = "get_transformer"
    /\ lookup.result.exc = "none"
    /\ lookup.result.value # NoTransformer

\* C28: whenever get_transformer(msg) returns a transformer, its applies(msg)
\* is true, also when MSH-9 has three components, stands in white space or
\* is rendered as bytes.
C28_FoundApplies ==
    LookupFound => Applies(lookup.result.value, lookup.msg) = Returned(TRUE)

\* C28 for the headers whose MSH-9 renders a text, as the claim names them
C28_FoundAppliesRendered ==
    (LookupFound /\ RendersText(lookup.msg)) =>
        Applies(lookup.result.value, lookup.msg) = Returned(TRUE)

\* C28 for the headers whose MSH-9 renders exactly a registered code
C28_FoundAppliesExact ==
    (LookupFound /\ RendersText(lookup.msg) /\ lookup.msg.msh.text \in SupportedEvents) =>
        Applies(lookup.result.value, lookup.msg) = Returned(TRUE)

\* --------------------------------------------------------------------------
\* Synthetic ids and references of a patient without identifier
\* --------------------------------------------------------------------------

\* a transform call has returned records whose Patient has no id
UnidentifiedReturned ==
    /\ ReturnedCall("transform")
    /\ conv[1].result.exc = "none"
    /\ conv[1].result.value[1].id = None

\* record r of transformer cls, at position k after the Patient, names the
\* patient as 'unknown' wherever its id or its subject is made from the
\* patient id
NamesUnknown(cls, r, k) ==
    /\ (r.resourceType = "Encounter" /\ cls \in {"ADTA03Transformer", "ADTA08Transformer"}
        /\ StartsWith(r.id, TxtEnc)) =>
           r.id = TxtEnc \o TxtUnknown
    /\ r.resourceType = "ServiceRequest" =>
           /\ StartsWith(r.id, TxtSr) => r.id = TxtSr \o TxtUnknown
           /\ r.subject = TxtPatientRef \o TxtUnknown
    /\ r.resourceType = "Observation" =>
           /\ r.id = TxtObs \o TxtUnknown \o <<"-">> \o NatStr(k)
           /\ r.subject = TxtPatientRef \o TxtUnknown

\* C29: when the patient has no identifier, the synthetic ids and the
\* patient references are 'enc-unknown', 'sr-unknown', 'obs-unknown-N' and
\* 'Patient/unknown', never a text made with 'None'.
C29_UnknownNeverNone ==
    UnidentifiedReturned =>
        \A i \in 2..Len(conv[1].result.value) :
            NamesUnknown(conv[1].cls, conv[1].result.value[i], i - 1)

\* C29 in ADTA08Transformer and ORUR01Transformer
C29_UnknownInA08AndOru ==
    (UnidentifiedReturned /\ conv[1].cls \in {"ADTA08Transformer", "ORUR01Transformer"}) =>
        \A i \in 2..Len(conv[1].result.value) :
            NamesUnknown(conv[1].cls, conv[1].result.value[i], i - 1)

\* C29 for the patient references alone
C29_SubjectUnknown ==
    UnidentifiedReturned =>
        \A i \in 2..Len(conv[1].result.value) :
            conv[1].result.value[i].resourceType \in {"ServiceRequest", "Observation"} =>
                conv[1].result.value[i].subject = TxtPatientRef \o TxtUnknown

\* an Encounter of ADTA08Transformer with the id 'enc-unknown'
C29_EncUnknownReached ==
    /\ UnidentifiedReturned
    /\ conv[1].cls = "ADTA08Transformer"
    /\ conv[1].result.value[2].id = TxtEnc \o TxtUnknown

\* --------------------------------------------------------------------------
\* Observation.identifier and Observation.effectiveDateTime
\* --------------------------------------------------------------------------

\* the text of OBR field f of the message: that of the first OBR line, that
\* of the element leaf of the first OBR segment when the line gives none
ObrText(msg, leaf, f) ==
    IF RawComponent(msg, TxtOBR, f, 1) # <<>> THEN RawComponent(msg, TxtOBR, f, 1)
    ELSE StructuredScalar(leaf)

\* the sequence of the text t, empty when t is empty
IfText(t) == IF t = <<>> THEN <<>> ELSE <<t>>

\* the order numbers of the first OBR of the message: OBR-2, then OBR-3
FirstObrIdentifiers(msg) ==
    IfText(ObrText(msg, SegmentNamed(msg, "OBR").f.obr_2, 2))
    \o IfText(ObrText(msg, SegmentNamed(msg, "OBR").f.obr_3, 3))

\* the OBR lines of the rendering of msg
ObrCount(msg) == Cardinality(StartsOfLinesWith(Rendered(msg), TxtOBR \o <<"|">>))

\* C30: every Observation of one ORUR01Transformer.transform call has the
\* identifiers (OBR-2, OBR-3) and the effectiveDateTime (OBR-7) of the first
\* OBR line and the first OBR segment of the message, whichever OBR line
\* stands before its OBX line; all Observations of the call share them.
C30_FromFirstObr ==
    (OruCallEnded /\ conv[1].result.exc = "none") =>
        \A k \in 2..Len(conv[1].result.value) :
            /\ conv[1].result.value[k].identifier = FirstObrIdentifiers(conv[1].msg)
            /\ conv[1].result.value[k].effective =
                   EffectiveOf(RawComponent(conv[1].msg, TxtOBR, 7, 1))
            /\ conv[1].result.value[k].identifier = conv[1].result.value[2].identifier
            /\ conv[1].result.value[k].effective = conv[1].result.value[2].effective

\* the Observation of an OBX line that stands after the second OBR line has
\* the numbers and the instant of the first
C30_Witness ==
    /\ OruCallEnded
    /\ conv[1].result.exc = "none"
    /\ ObrCount(conv[1].msg) = 2
    /\ Len(conv[1].result.value) = 4
    /\ conv[1].result.value[4].identifier = <<<<"P", "7">>, <<"F", "7">>>>
    /\ conv[1].result.value[4].effective # None
    /\ conv[1].result.value[4].effective = conv[1].result.value[2].effective

====
